---------------------------- MODULE Spec2Model ----------------------------
(***************************************************************************)
(* A model of bito-lint's core: rule resolution (rules.rs), inline         *)
(* suppression directives (directives.rs), the lint engine (lint.rs), the  *)
(* line maps of its filter and sentence splitting (text.rs).               *)
(*                                                                         *)
(* Conventions.  A Rust Option<T> is a sequence of length at most one:     *)
(* <<>> is None and <<v>> is Some(v).  Text is tokenised: a path or glob   *)
(* pattern is the sequence of its '/'-separated segments, and a segment is *)
(* the sequence of its atoms, each atom either one of the glob             *)
(* metacharacters "*", "?", "[" or a run of literal characters.            *)
(***************************************************************************)
EXTENDS Integers, Sequences, FiniteSets, TLC

VARIABLES
    rules,        \* Config::rules: the declared rule list
    compiled,     \* RuleSet::compiled
    resolved,     \* the last (file_path, ResolvedChecks) returned by resolve
    input,        \* parse_suppressions: the lines of `input` consumed so far
    map,          \* parse_suppressions: map.suppressed
    open,         \* parse_suppressions: the open disables, check -> start line
    pcD,          \* parse_suppressions: "reading" inside the loop, "done" after return
    content,      \* run_lint: the argument `content`, as its lines of directives
    lintResolved, \* run_lint: the argument `resolved` (ResolvedChecks)
    config,       \* run_lint: the argument `config` (project-wide defaults)
    ext,          \* what the checks and line-map builders compute from `content`
    pcL,          \* run_lint: the block about to run
    suppressions, \* run_lint: the local `suppressions`
    pass,         \* run_lint: the local `pass`
    reports,      \* run_lint: the sub-reports built so far, per check type
    ran,          \* the checks called so far, in order
    outcome,      \* run_lint: the returned AnalysisResult<LintReport>, None until return
    mdLines,      \* line maps: the document, as the kinds of its lines
    strip_md,     \* line maps: whether markdown stripping applies to the file
    analysed,     \* line maps: where the sentences and paragraphs the checks number start
    line_maps,    \* line maps: the sentence and paragraph line maps of the filter
    pcM,          \* line maps: "check", "filter" or "done"
    text,         \* split_sentences: the argument `text`, as its characters
    sentences,    \* split_sentences: the local vector `sentences`
    current,      \* split_sentences: the local string `current`, as its characters
    pos,          \* split_sentences: the loop index `i`
    pcT           \* split_sentences: "start", "scan" inside the loop, "done" after return

varsRules == <<rules, compiled, resolved>>
varsDir == <<input, map, open, pcD>>
varsLint == <<content, lintResolved, config, ext, pcL, suppressions, pass, reports, ran, outcome>>
varsMap == <<mdLines, strip_md, analysed, line_maps, pcM>>
varsText == <<text, sentences, current, pos, pcT>>
vars == <<rules, compiled, resolved, input, map, open, pcD,
          content, lintResolved, config, ext, pcL, suppressions, pass, reports, ran, outcome,
          mdLines, strip_md, analysed, line_maps, pcM,
          text, sentences, current, pos, pcT>>

None == <<>>
Some(v) == <<v>>
IsSome(o) == o # <<>>
IsNone(o) == o = <<>>
Unwrap(o) == o[1]

Max(S) == CHOOSE x \in S : \A y \in S : y <= x

Range(s) == {s[i] : i \in DOMAIN s}

(***************************************************************************)
(*                      rules.rs : rule resolution                         *)
(***************************************************************************)

CheckTypes == {"analyze", "readability", "grammar", "completeness", "tokens"}

MetaChars == {"*", "?", "["}

\* A pattern and a path are strings: sequences of one-character strings.
\* "docs", "decisions", "src", "README.md", "guide.md", "001.md", "*.md", "**", "[invalid"
SegDocs == <<"d", "o", "c", "s">>
SegDecisions == <<"d", "e", "c", "i", "s", "i", "o", "n", "s">>
SegSrc == <<"s", "r", "c">>
SegReadme == <<"R", "E", "A", "D", "M", "E", ".", "m", "d">>
SegGuide == <<"g", "u", "i", "d", "e", ".", "m", "d">>
SegAdr == <<"0", "0", "1", ".", "m", "d">>
SegStarMd == <<"*", ".", "m", "d">>
SegDoubleStar == <<"*", "*">>
SegBadClass == <<"[", "i", "n", "v", "a", "l", "i", "d">>

\* The string whose '/'-separated segments are `segs`.
RECURSIVE Join(_)
Join(segs) ==
    IF Len(segs) = 1 THEN segs[1] ELSE segs[1] \o <<"/">> \o Join(Tail(segs))

\* "**/*.md", "docs/**/*.md", "docs/decisions/*.md", "docs/*.md", "README.md",
\* "**", "[invalid"
PatAnyMd == Join(<<SegDoubleStar, SegStarMd>>)
PatDocsTree == Join(<<SegDocs, SegDoubleStar, SegStarMd>>)
PatDecisions == Join(<<SegDocs, SegDecisions, SegStarMd>>)
PatDocsMd == Join(<<SegDocs, SegStarMd>>)
PatReadme == SegReadme
PatEverything == SegDoubleStar
PatInvalid == SegBadClass

\* str::split('/'): the segments of a string, an empty string having one
\* empty segment.
RECURSIVE SplitFrom(_, _)
SplitFrom(s, cur) ==
    IF s = <<>> THEN <<cur>>
    ELSE IF Head(s) = "/" THEN <<cur>> \o SplitFrom(Tail(s), <<>>)
    ELSE SplitFrom(Tail(s), Append(cur, Head(s)))

Split(s) == SplitFrom(s, <<>>)

\* fn specificity: segments with none of '*', '?', '['.
SegIsLiteral(seg) == \A i \in DOMAIN seg : seg[i] \notin MetaChars

\* A variant that counts every segment.
specificity_all_segments(pattern) == Len(Split(pattern))

specificity(pattern) ==
    LET segs == Split(pattern) IN Cardinality({i \in DOMAIN segs : SegIsLiteral(segs[i])})

DropFirst(s, k) == SubSeq(s, k + 1, Len(s))

\* The printable ASCII characters in code order, from ' ' (32) to '_' (95)
\* and from 'a' (97) to '~' (126).
AsciiLow ==
    << " ", "!", "\"", "#", "$", "%", "&", "'", "(", ")", "*", "+", ",", "-", ".", "/",
       "0", "1", "2", "3", "4", "5", "6", "7", "8", "9", ":", ";", "<", "=", ">", "?",
       "@", "A", "B", "C", "D", "E", "F", "G", "H", "I", "J", "K", "L", "M", "N", "O",
       "P", "Q", "R", "S", "T", "U", "V", "W", "X", "Y", "Z", "[", "\\", "]", "^", "_" >>

AsciiHigh ==
    << "a", "b", "c", "d", "e", "f", "g", "h", "i", "j", "k", "l", "m", "n", "o",
       "p", "q", "r", "s", "t", "u", "v", "w", "x", "y", "z", "{", "|", "}", "~" >>

\* Characters outside these tables, each with its code: the control
\* characters that a string can spell and a few characters of two and three
\* UTF-8 bytes.
OtherChars ==
    { <<"\t", 9>>, <<"\n", 10>>, <<"\f", 12>>, <<"\r", 13>>,
      <<"é", 233>>, <<"ü", 252>>, <<"€", 8364>> }

\* `c as u32` for the characters of the tables.
CodePoints ==
    [c \in Range(AsciiLow) \cup Range(AsciiHigh) \cup {p[1] : p \in OtherChars} |->
        IF \E k \in DOMAIN AsciiLow : AsciiLow[k] = c
        THEN 31 + (CHOOSE k \in DOMAIN AsciiLow : AsciiLow[k] = c)
        ELSE IF \E k \in DOMAIN AsciiHigh : AsciiHigh[k] = c
        THEN 96 + (CHOOSE k \in DOMAIN AsciiHigh : AsciiHigh[k] = c)
        ELSE (CHOOSE p \in OtherChars : p[1] = c)[2]]

\* The code of a character, which is what chars are ordered by.
CodePoint(c) == CodePoints[c]

\* char::encode_utf8: the bytes of a character.
Utf8(c) ==
    LET cp == CodePoint(c) IN
    IF cp < 128 THEN <<cp>>
    ELSE IF cp < 2048 THEN <<192 + (cp \div 64), 128 + (cp % 64)>>
    ELSE IF cp < 65536
    THEN <<224 + (cp \div 4096), 128 + ((cp \div 64) % 64), 128 + (cp % 64)>>
    ELSE <<240 + (cp \div 262144), 128 + ((cp \div 4096) % 64),
           128 + ((cp \div 64) % 64), 128 + (cp % 64)>>

\* str::as_bytes
RECURSIVE Bytes(_)
Bytes(s) == IF s = <<>> THEN <<>> ELSE Utf8(Head(s)) \o Bytes(Tail(s))

\* globset: the tokens of a parsed glob. A literal character, '?', '*', a
\* leading "**/", a trailing "/**", an inner "/**/", a character class and
\* an alternation of token lists.
TokLiteral(c) == <<"Literal", c>>
TokAny == <<"Any">>
TokZeroOrMore == <<"ZeroOrMore">>
TokRecursivePrefix == <<"RecursivePrefix">>
TokRecursiveSuffix == <<"RecursiveSuffix">>
TokRecursiveZeroOrMore == <<"RecursiveZeroOrMore">>
TokClass(negated, ranges) == <<"Class", negated, ranges>>
TokAlternates(alts) == <<"Alternates", alts>>

GlobErr == [ok |-> FALSE, tokens |-> <<>>]

\* Parser::push_token: the token goes to the token list on top of the stack.
PushToken(stack, tok) == [stack EXCEPT ![Len(stack)] = Append(@, tok)]

\* Parser::parse_class from index j, the first character after '[' and the
\* negation mark. The class ends at the first ']' that is not its first
\* character; a class that never ends and a range whose end is below its
\* start are errors.
RECURSIVE ParseClass(_, _, _, _, _)
ParseClass(chars, j, first, in_range, ranges) ==
    IF j > Len(chars) THEN [ok |-> FALSE, ranges |-> <<>>, next |-> j]
    ELSE LET c == chars[j]
             last == ranges[Len(ranges)]
             closed == [ranges EXCEPT ![Len(ranges)] = <<last[1], c>>]
         IN
         IF c = "]" /\ ~first
         THEN [ok |-> TRUE,
               ranges |-> IF in_range THEN Append(ranges, <<"-", "-">>) ELSE ranges,
               next |-> j + 1]
         ELSE IF c = "]"
         THEN ParseClass(chars, j + 1, FALSE, in_range, Append(ranges, <<"]", "]">>))
         ELSE IF c = "-" /\ first
         THEN ParseClass(chars, j + 1, FALSE, in_range, Append(ranges, <<"-", "-">>))
         ELSE IF c = "-" /\ ~in_range
         THEN ParseClass(chars, j + 1, FALSE, TRUE, ranges)
         ELSE IF in_range
         THEN IF CodePoint(c) < CodePoint(last[1])
              THEN [ok |-> FALSE, ranges |-> <<>>, next |-> j]
              ELSE ParseClass(chars, j + 1, FALSE, FALSE, closed)
         ELSE ParseClass(chars, j + 1, FALSE, FALSE, Append(ranges, <<c, c>>))

\* Parser::parse_star for the '*' at index i that is followed by a second
\* '*': what is pushed and the index at which the parse goes on.
ParseStars(chars, i, stack) ==
    LET prev == IF i > 1 THEN Some(chars[i - 1]) ELSE None
        peek == IF i + 2 <= Len(chars) THEN Some(chars[i + 2]) ELSE None
        top == stack[Len(stack)]
        two == [stack |-> PushToken(PushToken(stack, TokZeroOrMore), TokZeroOrMore),
                next |-> i + 2]
        is_suffix == IsNone(peek) \/ (Unwrap(peek) \in {",", "}"} /\ Len(stack) >= 2)
        popped == [stack EXCEPT ![Len(stack)] = SubSeq(top, 1, Len(top) - 1)]
        lastTok == top[Len(top)]
        recursive ==
            IF lastTok[1] \in {"RecursivePrefix", "RecursiveSuffix"} THEN lastTok
            ELSE IF is_suffix THEN TokRecursiveSuffix ELSE TokRecursiveZeroOrMore
    IN IF top = <<>>
       THEN IF IsSome(peek) /\ Unwrap(peek) # "/"
            THEN two
            ELSE [stack |-> PushToken(stack, TokRecursivePrefix), next |-> i + 3]
       ELSE IF prev # Some("/") /\ (Len(stack) <= 1 \/ Unwrap(prev) \notin {",", "{"})
       THEN two
       ELSE IF IsSome(peek) /\ Unwrap(peek) # "/" /\ ~is_suffix
       THEN two
       ELSE [stack |-> PushToken(popped, recursive),
             next |-> IF is_suffix /\ IsSome(peek) THEN i + 2 ELSE i + 3]

\* Parser::parse from index i, with the stack of open token lists and the
\* stack positions at which the open alternations started.
RECURSIVE ParseFrom(_, _, _, _)
ParseFrom(chars, i, stack, alternates_stack) ==
    IF i > Len(chars)
    THEN IF alternates_stack # <<>> THEN GlobErr ELSE [ok |-> TRUE, tokens |-> stack[1]]
    ELSE LET c == chars[i] IN
         IF c = "?"
         THEN ParseFrom(chars, i + 1, PushToken(stack, TokAny), alternates_stack)
         ELSE IF c = "*"
         THEN IF i + 1 <= Len(chars) /\ chars[i + 1] = "*"
              THEN LET r == ParseStars(chars, i, stack)
                   IN ParseFrom(chars, r.next, r.stack, alternates_stack)
              ELSE ParseFrom(chars, i + 1, PushToken(stack, TokZeroOrMore), alternates_stack)
         ELSE IF c = "["
         THEN LET negated == i + 1 <= Len(chars) /\ chars[i + 1] \in {"!", "^"}
                  cls == ParseClass(chars, IF negated THEN i + 2 ELSE i + 1, TRUE, FALSE, <<>>)
              IN IF cls.ok
                 THEN ParseFrom(chars, cls.next, PushToken(stack, TokClass(negated, cls.ranges)),
                                alternates_stack)
                 ELSE GlobErr
         ELSE IF c = "{"
         THEN ParseFrom(chars, i + 1, Append(stack, <<>>), Append(alternates_stack, Len(stack)))
         ELSE IF c = "}"
         THEN IF alternates_stack = <<>> THEN GlobErr
              ELSE LET start == alternates_stack[Len(alternates_stack)]
                       alts == SubSeq(stack, start + 1, Len(stack))
                   IN ParseFrom(chars, i + 1,
                                PushToken(SubSeq(stack, 1, start), TokAlternates(alts)),
                                SubSeq(alternates_stack, 1, Len(alternates_stack) - 1))
         ELSE IF c = ","
         THEN IF alternates_stack = <<>>
              THEN ParseFrom(chars, i + 1, PushToken(stack, TokLiteral(",")), alternates_stack)
              ELSE ParseFrom(chars, i + 1, Append(stack, <<>>), alternates_stack)
         ELSE IF c = "\\"
         THEN IF i + 1 > Len(chars) THEN GlobErr
              ELSE ParseFrom(chars, i + 2, PushToken(stack, TokLiteral(chars[i + 1])),
                             alternates_stack)
         ELSE ParseFrom(chars, i + 1, PushToken(stack, TokLiteral(c)), alternates_stack)

\* Parser::parse on the whole pattern.
ParseGlob(pattern) == ParseFrom(pattern, 1, << <<>> >>, <<>>)

\* The patterns and the paths of the bounded inputs, with their parses and
\* their matches computed once.
Patterns ==
    {PatAnyMd, PatDocsTree, PatDecisions, PatDocsMd, PatReadme, PatEverything, PatInvalid}

Paths ==
    { SegReadme, Join(<<SegDocs, SegGuide>>), Join(<<SegDocs, SegDecisions, SegAdr>>),
      Join(<<SegSrc, SegGuide>>) }

ParsedPatterns == [p \in Patterns |-> ParseGlob(p)]

\* Glob::new(pattern), with globset's default options.
Glob_new(pattern) ==
    IF pattern \in Patterns THEN ParsedPatterns[pattern] ELSE ParseGlob(pattern)

GlobCompiles(pattern) == Glob_new(pattern).ok

\* The token list translates to an empty regular expression.
RECURSIVE RegexIsEmpty(_)
RegexIsEmpty(tokens) ==
    \A k \in DOMAIN tokens :
        /\ tokens[k][1] = "Alternates"
        /\ \A a \in DOMAIN tokens[k][2] : RegexIsEmpty(tokens[k][2][a])

\* The bytes of the regex class item written for one range of a class:
\* char_to_escaped_literal writes a character as its UTF-8 bytes, so that
\* of "a-b" only the last byte of a and the first byte of b span a range.
ClassBytes(r) ==
    LET lo == Utf8(r[1])
        hi == Utf8(r[2])
    IN IF r[1] = r[2] THEN Range(lo)
       ELSE Range(SubSeq(lo, 1, Len(lo) - 1))
            \cup (lo[Len(lo)]..hi[1])
            \cup Range(SubSeq(hi, 2, Len(hi)))

\* The byte is one the class [ranges] lists.
InClass(byte, ranges) == \E k \in DOMAIN ranges : byte \in ClassBytes(ranges[k])

\* The byte '/'.
SlashByte == CodePoint("/")

StartsWith(s, prefix) == Len(s) >= Len(prefix) /\ SubSeq(s, 1, Len(prefix)) = prefix

\* Glob::tokens_to_regex: the regular expression of the tokens matches the
\* whole of the bytes s. The regex is a byte regex ((?-u)) in which '.'
\* matches every byte: with the default options '?', '*' and a class
\* consume bytes and also match '/'.
RECURSIVE TokensMatch(_, _)
TokensMatch(tokens, s) ==
    IF tokens = <<>> THEN s = <<>>
    ELSE LET tok == Head(tokens)
             rest == Tail(tokens)
             kind == tok[1]
         IN
         IF kind = "Literal"
         THEN /\ StartsWith(s, Utf8(tok[2]))
              /\ TokensMatch(rest, DropFirst(s, Len(Utf8(tok[2]))))
         ELSE IF kind = "Any"
         THEN s # <<>> /\ TokensMatch(rest, Tail(s))
         ELSE IF kind = "ZeroOrMore"
         THEN \E k \in 0..Len(s) : TokensMatch(rest, DropFirst(s, k))
         ELSE IF kind = "RecursivePrefix"          \* (?:/?|.*/)
         THEN \/ TokensMatch(rest, s)
              \/ \E k \in 1..Len(s) : s[k] = SlashByte /\ TokensMatch(rest, DropFirst(s, k))
         ELSE IF kind = "RecursiveSuffix"          \* /.*
         THEN /\ s # <<>>
              /\ Head(s) = SlashByte
              /\ \E k \in 1..Len(s) : TokensMatch(rest, DropFirst(s, k))
         ELSE IF kind = "RecursiveZeroOrMore"      \* (?:/|/.*/)
         THEN /\ s # <<>>
              /\ Head(s) = SlashByte
              /\ \E k \in 1..Len(s) : s[k] = SlashByte /\ TokensMatch(rest, DropFirst(s, k))
         ELSE IF kind = "Class"
         THEN /\ s # <<>>
              /\ InClass(Head(s), tok[3]) # tok[2]
              /\ TokensMatch(rest, Tail(s))
         ELSE LET parts == {a \in DOMAIN tok[2] : ~RegexIsEmpty(tok[2][a])} IN
              IF parts = {} THEN TokensMatch(rest, s)
              ELSE \E a \in parts : TokensMatch(tok[2][a] \o rest, s)

\* Glob::to_regex_with and Regex::is_match on the bytes of the path: a glob
\* that is "**" as a whole matches everything.
RegexMatches(tokens, s) ==
    IF tokens = <<TokRecursivePrefix>> THEN TRUE ELSE TokensMatch(tokens, Bytes(s))

MatchedPaths ==
    [p \in Patterns |-> {f \in Paths : RegexMatches(ParsedPatterns[p].tokens, f)}]

\* Glob::new(pattern).compile_matcher().is_match(path)
is_match(pattern, path) ==
    IF pattern \in Patterns /\ path \in Paths
    THEN path \in MatchedPaths[pattern]
    ELSE RegexMatches(Glob_new(pattern).tokens, path)

\* RuleSet::compile: the patterns that compile, each with its specificity;
\* a rule left with no matcher is dropped.
\* A variant that stops at the first pattern that does not compile.
RECURSIVE KeepCompilingPrefix(_)
KeepCompilingPrefix(paths) ==
    IF paths = <<>> \/ ~GlobCompiles(Head(paths)) THEN <<>>
    ELSE <<Head(paths)>> \o KeepCompilingPrefix(Tail(paths))

RECURSIVE KeepCompiling(_)
KeepCompiling(paths) ==
    IF paths = <<>> THEN <<>>
    ELSE (IF GlobCompiles(Head(paths)) THEN <<Head(paths)>> ELSE <<>>) \o KeepCompiling(Tail(paths))

CompileRule(rule) ==
    LET kept == KeepCompiling(rule.paths)
    IN [matchers |-> [i \in DOMAIN kept |-> [glob |-> kept[i], spec |-> specificity(kept[i])]],
        checks |-> rule.checks]

RECURSIVE CompileRec(_, _)
CompileRec(rs, acc) ==
    IF rs = <<>> THEN acc
    ELSE LET c == CompileRule(Head(rs)) IN
         CompileRec(Tail(rs), IF c.matchers = <<>> THEN acc ELSE Append(acc, c))

compile(rs) == CompileRec(rs, <<>>)

\* `prev.is_none_or(|prev| spec > prev)`
BeatsEq(spec, prev) == IsNone(prev) \/ spec >= Unwrap(prev)
Beats(spec, prev) == IsNone(prev) \/ spec > Unwrap(prev)

\* A variant that credits a matching rule with its most specific pattern,
\* matching or not.
MaxSpecAnyPattern(rule, path) ==
    IF \E i \in DOMAIN rule.matchers : is_match(rule.matchers[i].glob, path)
    THEN Some(Max({rule.matchers[i].spec : i \in DOMAIN rule.matchers}))
    ELSE None

\* A variant that consults only the first pattern of a rule.
MaxSpecFirstPattern(rule, path) ==
    IF is_match(rule.matchers[1].glob, path) THEN Some(rule.matchers[1].spec) ELSE None

\* The specificity of a rule for a path: the maximum over its matching patterns.
MaxSpec(rule, path) ==
    LET hits == {rule.matchers[i].spec :
                    i \in {j \in DOMAIN rule.matchers : is_match(rule.matchers[j].glob, path)}}
    IN IF hits = {} THEN None ELSE Some(Max(hits))

EmptyAcc == [result |-> [t \in CheckTypes |-> None], spec |-> [t \in CheckTypes |-> None]]

\* A variant that tracks one best specificity for all check types together.
ResolveStepShared(acc, rule, path) ==
    LET ms == MaxSpec(rule, path)
        best == IF \E t \in CheckTypes : IsSome(acc.spec[t])
                THEN Some(Max({Unwrap(acc.spec[t]) : t \in {u \in CheckTypes : IsSome(acc.spec[u])}}))
                ELSE None
    IN IF IsNone(ms) THEN acc
       ELSE LET s == Unwrap(ms)
                wins(t) == IsSome(rule.checks[t]) /\ Beats(s, best)
            IN [result |-> [t \in CheckTypes |-> IF wins(t) THEN rule.checks[t] ELSE acc.result[t]],
                spec |-> [t \in CheckTypes |-> IF wins(t) THEN Some(s) ELSE acc.spec[t]]]

\* A variant that fills the fields the winning rule leaves unset with the
\* fields of the settings it replaces.
ResolveStepMerging(acc, rule, path) ==
    LET ms == MaxSpec(rule, path) IN
    IF IsNone(ms) THEN acc
    ELSE LET s == Unwrap(ms)
             wins(t) == IsSome(rule.checks[t]) /\ Beats(s, acc.spec[t])
             merged(t) ==
                 IF IsNone(acc.result[t]) THEN rule.checks[t]
                 ELSE Some([f \in DOMAIN Unwrap(rule.checks[t]) |->
                              IF IsSome(Unwrap(rule.checks[t])[f]) THEN Unwrap(rule.checks[t])[f]
                              ELSE Unwrap(acc.result[t])[f]])
         IN [result |-> [t \in CheckTypes |-> IF wins(t) THEN merged(t) ELSE acc.result[t]],
             spec |-> [t \in CheckTypes |-> IF wins(t) THEN Some(s) ELSE acc.spec[t]]]

\* One iteration of the loop in resolve.
ResolveStep(acc, rule, path) ==
    LET ms == MaxSpec(rule, path) IN
    IF IsNone(ms) THEN acc
    ELSE LET s == Unwrap(ms)
             wins(t) == IsSome(rule.checks[t]) /\ Beats(s, acc.spec[t])
         IN [result |-> [t \in CheckTypes |-> IF wins(t) THEN rule.checks[t] ELSE acc.result[t]],
             spec |-> [t \in CheckTypes |-> IF wins(t) THEN Some(s) ELSE acc.spec[t]]]

RECURSIVE ResolveRec(_, _, _)
ResolveRec(crs, path, acc) ==
    IF crs = <<>> THEN acc
    ELSE ResolveRec(Tail(crs), path, ResolveStep(acc, Head(crs), path))

\* RuleSet::resolve
resolve(crs, path) == ResolveRec(crs, path, EmptyAcc).result

---------------------------------------------------------------------------
\* Bounded inputs of the rule-resolution specification.

MaxRules == 2

\* "README.md", "docs/guide.md", "docs/decisions/001.md", "src/guide.md"
FilePaths == Paths

PathLists ==
    { <<PatAnyMd>>, <<PatDocsTree>>, <<PatDecisions>>, <<PatDecisions, PatAnyMd>> }

\* The check types a rule configures: none, any single one, or the pair the
\* repository's own test combines.
CheckSubsets ==
    {S \in SUBSET CheckTypes : Cardinality(S) <= 1} \cup {{"analyze", "completeness"}}

\* The rule declared at position i carries settings labelled i, so that the
\* resolved settings show which rule they were taken from.
RuleAt(i, paths, on) ==
    [paths |-> paths, checks |-> [t \in CheckTypes |-> IF t \in on THEN Some(i) ELSE None]]

IdleRules == rules = <<>> /\ compiled = <<>> /\ resolved = None
IdleDir == input = <<>> /\ map = <<>> /\ open = <<>> /\ pcD = "idle"
IdleLint ==
    /\ content = <<>> /\ lintResolved = <<>> /\ config = <<>> /\ ext = <<>>
    /\ pcL = "idle" /\ suppressions = <<>> /\ pass = TRUE /\ reports = <<>>
    /\ ran = <<>> /\ outcome = <<>>
IdleMap ==
    /\ mdLines = <<>> /\ strip_md = FALSE /\ analysed = <<>> /\ line_maps = <<>>
    /\ pcM = "idle"
IdleText == text = <<>> /\ sentences = <<>> /\ current = <<>> /\ pos = 0 /\ pcT = "idle"

InitRules ==
    /\ IdleDir
    /\ IdleLint
    /\ IdleMap
    /\ IdleText
    /\ \E n \in 0..MaxRules :
          \E ps \in [1..n -> PathLists], on \in [1..n -> CheckSubsets] :
              rules = [i \in 1..n |-> RuleAt(i, ps[i], on[i])]
    /\ compiled = compile(rules)
    /\ resolved = None

\* set.resolve(file_path)
Resolve ==
    \E p \in FilePaths :
        /\ resolved' = Some([path |-> p, checks |-> resolve(compiled, p)])
        /\ UNCHANGED <<rules, compiled>>
        /\ UNCHANGED <<varsDir, varsLint, varsMap, varsText>>

NextRules == Resolve

SpecRules == InitRules /\ [][NextRules]_vars

---------------------------------------------------------------------------
\* Claims about rule resolution.

\* The compiled rules that match `path` and configure check type t.
Candidates(crs, path, t) ==
    {i \in DOMAIN crs : IsSome(MaxSpec(crs[i], path)) /\ IsSome(crs[i].checks[t])}

CandSpec(crs, path, i) == Unwrap(MaxSpec(crs[i], path))

\* The settings of the earliest rule among those of greatest specificity.
ExpectedWinner(crs, path, t) ==
    LET c == Candidates(crs, path, t) IN
    IF c = {} THEN None
    ELSE LET best == Max({CandSpec(crs, path, i) : i \in c})
             first == CHOOSE i \in c :
                         /\ CandSpec(crs, path, i) = best
                         /\ \A j \in c : CandSpec(crs, path, j) = best => i <= j
         IN crs[first].checks[t]

Orderings(s) ==
    {[i \in DOMAIN s |-> s[f[i]]] :
        f \in {g \in [DOMAIN s -> DOMAIN s] : \A a, b \in DOMAIN s : g[a] = g[b] => a = b}}

DistinctSpecs(crs, path, t) ==
    /\ Cardinality(Candidates(crs, path, t)) >= 2
    /\ \A i, j \in Candidates(crs, path, t) :
        i # j => CandSpec(crs, path, i) # CandSpec(crs, path, j)

\* C1: resolve gives each check type the settings of the matching rule of
\* greatest specificity that configures it, the earliest-declared one on a
\* tie; when the specificities differ, every declaration order of the rules
\* gives the same winner.
C1_HighestSpecificityWins ==
    IsSome(resolved) =>
        LET p == Unwrap(resolved).path
            got == Unwrap(resolved).checks
        IN \A t \in CheckTypes :
              /\ got[t] = ExpectedWinner(compiled, p, t)
              /\ DistinctSpecs(compiled, p, t) =>
                    \A perm \in Orderings(compiled) : resolve(perm, p)[t] = got[t]

\* A later, more specific rule has overridden an earlier, general one.
C1_Witness ==
    /\ IsSome(resolved)
    /\ \E t \in CheckTypes :
          /\ Candidates(compiled, Unwrap(resolved).path, t) = {1, 2}
          /\ CandSpec(compiled, Unwrap(resolved).path, 1) < CandSpec(compiled, Unwrap(resolved).path, 2)
          /\ Unwrap(resolved).checks[t] = Some(2)

\* The compiled rules with every setting but those of check type t removed.
StripOthers(crs, t) ==
    [i \in DOMAIN crs |->
        [crs[i] EXCEPT !.checks = [u \in CheckTypes |-> IF u = t THEN crs[i].checks[u] ELSE None]]]

\* C2: the settings resolved for a check type are those resolve returns when
\* all rules' settings for the other check types are removed.
C2_CheckTypesIndependent ==
    IsSome(resolved) =>
        \A t \in CheckTypes :
            Unwrap(resolved).checks[t] =
                resolve(StripOthers(compiled, t), Unwrap(resolved).path)[t]

\* A general rule configuring only one check type and a more specific rule
\* configuring only another both contribute.
C2_Witness ==
    /\ IsSome(resolved)
    /\ Len(compiled) = 2
    /\ \E a, b \in CheckTypes :
          /\ a # b
          /\ \A t \in CheckTypes : IsSome(compiled[1].checks[t]) <=> t = a
          /\ \A t \in CheckTypes : IsSome(compiled[2].checks[t]) <=> t = b
          /\ IsSome(MaxSpec(compiled[1], Unwrap(resolved).path))
          /\ IsSome(MaxSpec(compiled[2], Unwrap(resolved).path))
          /\ CandSpec(compiled, Unwrap(resolved).path, 1) < CandSpec(compiled, Unwrap(resolved).path, 2)
          /\ Unwrap(resolved).checks[a] = Some(1)
          /\ Unwrap(resolved).checks[b] = Some(2)

(***************************************************************************)
(*                directives.rs : inline suppressions                      *)
(*                                                                         *)
(* A line of the input is the sequence of directives the regex captures on *)
(* it, in order (empty for a line of plain text); a directive is its       *)
(* action and the check names left after splitting on ',', trimming and    *)
(* dropping empty entries.  A HashMap is a function on its set of keys.    *)
(***************************************************************************)

HasKey(m, k) == k \in DOMAIN m
Insert(m, k, v) == [x \in DOMAIN m \cup {k} |-> IF x = k THEN v ELSE m[x]]
Remove(m, k) == [x \in DOMAIN m \ {k} |-> m[x]]
\* `.entry(k).or_default()`
OrDefault(m, k) == IF HasKey(m, k) THEN m[k] ELSE <<>>

\* SuppressionMap::is_suppressed
is_suppressed(m, check, line) ==
    IF ~HasKey(m, check) THEN FALSE
    ELSE IF m[check] = <<>> THEN TRUE
    ELSE \E i \in DOMAIN m[check] : line >= m[check][i][1] /\ line <= m[check][i][2]

\* SuppressionMap::is_fully_suppressed
is_fully_suppressed(m, check) == HasKey(m, check) /\ m[check] = <<>>

\* A variant that looks for fully suppressed checks only.
is_empty_of_full(m) == \A k \in DOMAIN m : m[k] # <<>>

\* SuppressionMap::is_empty
is_empty(m) == DOMAIN m = {}

\* A variant that keeps the start line of a disable that is already open.
ApplyDisableKeepFirst(st, check, line_num) ==
    IF HasKey(st.open, check) THEN st
    ELSE [st EXCEPT !.open = Insert(st.open, check, line_num)]

\* "disable": open.insert(check, line_num)
ApplyDisable(st, check, line_num) ==
    [st EXCEPT !.open = Insert(st.open, check, line_num)]

\* A variant whose closed range stops before the line of the enable.
ApplyEnableExclusive(st, check, line_num) ==
    IF HasKey(st.open, check)
    THEN [map |-> Insert(st.map, check,
                         Append(OrDefault(st.map, check), <<st.open[check], line_num - 1>>)),
          open |-> Remove(st.open, check)]
    ELSE st

\* A variant that creates the entry of the check when no disable is open.
ApplyEnableCreatesEntry(st, check, line_num) ==
    IF HasKey(st.open, check)
    THEN [map |-> Insert(st.map, check,
                         Append(OrDefault(st.map, check), <<st.open[check], line_num>>)),
          open |-> Remove(st.open, check)]
    ELSE [st EXCEPT !.map = Insert(st.map, check, OrDefault(st.map, check))]

\* "enable": if let Some(start) = open.remove(check) { push((start, line_num)) }
ApplyEnable(st, check, line_num) ==
    IF HasKey(st.open, check)
    THEN [map |-> Insert(st.map, check,
                         Append(OrDefault(st.map, check), <<st.open[check], line_num>>)),
          open |-> Remove(st.open, check)]
    ELSE st

\* A variant whose range starts on the directive's own line.
ApplyNextLineFromHere(st, check, line_num) ==
    [st EXCEPT !.map = Insert(st.map, check,
                              Append(OrDefault(st.map, check), <<line_num, line_num + 1>>))]

\* A variant that creates the entry of the check and stores no range.
ApplyNextLineEntryOnly(st, check, line_num) ==
    [st EXCEPT !.map = Insert(st.map, check, OrDefault(st.map, check))]

\* "disable-next-line": push((line_num + 1, line_num + 1))
ApplyNextLine(st, check, line_num) ==
    [st EXCEPT !.map = Insert(st.map, check,
                              Append(OrDefault(st.map, check), <<line_num + 1, line_num + 1>>))]

ApplyAction(st, action, check, line_num) ==
    CASE action = "disable" -> ApplyDisable(st, check, line_num)
      [] action = "enable" -> ApplyEnable(st, check, line_num)
      [] action = "disable-next-line" -> ApplyNextLine(st, check, line_num)
      [] OTHER -> st

\* `for check in &checks { ... }`
RECURSIVE ApplyChecks(_, _, _, _)
ApplyChecks(st, action, checks, line_num) ==
    IF checks = <<>> THEN st
    ELSE ApplyChecks(ApplyAction(st, action, Head(checks), line_num), action, Tail(checks), line_num)

\* `for cap in re.captures_iter(line_text) { ... }`
RECURSIVE ProcessLine(_, _, _)
ProcessLine(st, line, line_num) ==
    IF line = <<>> THEN st
    ELSE ProcessLine(ApplyChecks(st, Head(line).action, Head(line).checks, line_num),
                     Tail(line), line_num)

\* A variant that creates the entry of an open check but keeps its ranges.
FinalizeNoClear(st) ==
    [x \in DOMAIN st.map \cup DOMAIN st.open |-> OrDefault(st.map, x)]

\* `for (check, _start) in open { map.suppressed.entry(check).or_default().clear(); }`
Finalize(st) ==
    [x \in DOMAIN st.map \cup DOMAIN st.open |-> IF HasKey(st.open, x) THEN <<>> ELSE st.map[x]]

EmptyParse == [map |-> <<>>, open |-> <<>>]

\* The state of the loop after the lines doc[1..k].
RECURSIVE ParseLines(_, _)
ParseLines(doc, k) ==
    IF k = 0 THEN EmptyParse
    ELSE ProcessLine(ParseLines(doc, k - 1), doc[k], k)

\* parse_suppressions
parse_suppressions(doc) == Finalize(ParseLines(doc, Len(doc)))

---------------------------------------------------------------------------
\* Bounded inputs of the directive specification.

MaxLines == 4

DirChecks == {"style", "grammar"}

Dir(action, checks) == [action |-> action, checks |-> checks]

LineChoices ==
    { <<>> }
    \cup { <<Dir(a, <<c>>)>> : a \in {"disable", "enable", "disable-next-line"}, c \in DirChecks }
    \cup { <<Dir("disable", <<"style", "grammar">>)>>,
           <<Dir("disable", <<"style">>), Dir("enable", <<"style">>)>>,
           <<Dir("enable", <<"style">>), Dir("disable", <<"style">>)>> }

\* Line numbers at which suppression is queried: line 0 (no line) up to
\* past the line after the last one.
QueryLines == 0..(MaxLines + 2)

InitDir ==
    /\ IdleRules
    /\ IdleLint
    /\ IdleMap
    /\ IdleText
    /\ input = <<>>
    /\ map = <<>>
    /\ open = <<>>
    /\ pcD = "reading"

\* One iteration of `for (line_idx, line_text) in input.lines().enumerate()`.
ReadLine ==
    /\ pcD = "reading"
    /\ Len(input) < MaxLines
    /\ \E l \in LineChoices :
          LET st == ProcessLine([map |-> map, open |-> open], l, Len(input) + 1) IN
          /\ input' = Append(input, l)
          /\ map' = st.map
          /\ open' = st.open
    /\ UNCHANGED pcD
    /\ UNCHANGED <<varsRules, varsLint, varsMap, varsText>>

\* The end of the input: unclosed disables become file-level, the map is returned.
EndOfInput ==
    /\ pcD = "reading"
    /\ map' = Finalize([map |-> map, open |-> open])
    /\ open' = <<>>
    /\ pcD' = "done"
    /\ UNCHANGED input
    /\ UNCHANGED <<varsRules, varsLint, varsMap, varsText>>

NextDir == ReadLine \/ EndOfInput

SpecDir == InitDir /\ [][NextDir]_vars

---------------------------------------------------------------------------
\* Claims about parse_suppressions.

\* The directive occurrences naming `check` in the lines doc[1..k], in
\* reading order, each with its action and line.
RECURSIVE EventsOfChecks(_, _, _, _)
EventsOfChecks(checks, action, check, k) ==
    IF checks = <<>> THEN <<>>
    ELSE (IF Head(checks) = check THEN <<[action |-> action, line |-> k]>> ELSE <<>>)
         \o EventsOfChecks(Tail(checks), action, check, k)

RECURSIVE EventsOfLine(_, _, _)
EventsOfLine(line, check, k) ==
    IF line = <<>> THEN <<>>
    ELSE EventsOfChecks(Head(line).checks, Head(line).action, check, k)
         \o EventsOfLine(Tail(line), check, k)

RECURSIVE Events(_, _, _)
Events(doc, check, k) ==
    IF k = 0 THEN <<>> ELSE Events(doc, check, k - 1) \o EventsOfLine(doc[k], check, k)

AllEvents(doc, check) == Events(doc, check, Len(doc))

\* The directives for `check` are one or more disable/enable pairs.
IsPairs(ev) ==
    /\ Len(ev) >= 2
    /\ Len(ev) % 2 = 0
    /\ \A i \in DOMAIN ev : ev[i].action = IF i % 2 = 1 THEN "disable" ELSE "enable"

InSomePair(ev, n) ==
    \E i \in 1..(Len(ev) \div 2) : ev[2 * i - 1].line <= n /\ n <= ev[2 * i].line

\* C3: when the directives for a check are disable/enable pairs, the check
\* is suppressed exactly on the lines from each disable to its enable, both
\* included, and it is not fully suppressed.
C3_PairsSuppressExactlyTheirLines ==
    pcD = "done" =>
        \A x \in DirChecks :
            LET ev == AllEvents(input, x) IN
            IsPairs(ev) =>
                /\ \A n \in QueryLines : is_suppressed(map, x, n) <=> InSomePair(ev, n)
                /\ ~is_fully_suppressed(map, x)

\* Two regions of one check with an unsuppressed gap between them.
C3_Witness ==
    /\ pcD = "done"
    /\ \E x \in DirChecks :
          LET ev == AllEvents(input, x) IN
          /\ IsPairs(ev)
          /\ Len(ev) = 4
          /\ ev[2].line + 1 < ev[3].line
          /\ is_suppressed(map, x, ev[1].line)
          /\ is_suppressed(map, x, ev[2].line)
          /\ ~is_suppressed(map, x, ev[2].line + 1)
          /\ is_suppressed(map, x, ev[4].line)

\* The last disable or enable for `check` is a disable.
OpenAtEnd(ev) ==
    \E i \in DOMAIN ev :
        /\ ev[i].action = "disable"
        /\ \A j \in DOMAIN ev : j > i => ev[j].action = "disable-next-line"

\* C4: a disable still open at the end of the document makes the check
\* fully suppressed, and suppressed on every line, whatever ranges it had.
C4_UnclosedDisableIsFileLevel ==
    pcD = "done" =>
        \A x \in DirChecks :
            OpenAtEnd(AllEvents(input, x)) =>
                /\ is_fully_suppressed(map, x)
                /\ \A n \in QueryLines : is_suppressed(map, x, n)

\* An unclosed disable of a check that had stored a range before.
C4_Witness ==
    /\ pcD = "done"
    /\ \E x \in DirChecks :
          LET ev == AllEvents(input, x) IN
          /\ OpenAtEnd(ev)
          /\ HasKey(ParseLines(input, Len(input)).map, x)
          /\ Len(ParseLines(input, Len(input)).map[x]) >= 1
          /\ is_fully_suppressed(map, x)
          /\ is_suppressed(map, x, 0)

\* The document with line i replaced by a line of plain text.
WithoutLine(doc, i) == [doc EXCEPT ![i] = <<>>]

IsNextLineOnly(line, x) == line = <<Dir("disable-next-line", <<x>>)>>

\* The parser's state after the lines read so far, returned when done.
Current == [map |-> map, open |-> open]

Reference(doc) ==
    IF pcD = "done"
    THEN [map |-> parse_suppressions(doc), open |-> <<>>]
    ELSE ParseLines(doc, Len(doc))

\* C5: a disable-next-line for a check on line i adds line i+1 to the
\* suppressed lines of that check and changes nothing else: the other
\* lines, the other checks, the open disables and full suppression are as
\* in the same document without the directive.
C5_NextLineSuppressesOnlyNextLine ==
    pcD \in {"reading", "done"} =>
        \A i \in DOMAIN input : \A x \in DirChecks :
            IsNextLineOnly(input[i], x) =>
                LET ref == Reference(WithoutLine(input, i)) IN
                /\ open = ref.open
                /\ \A n \in QueryLines :
                      is_suppressed(map, x, n) <=> (is_suppressed(ref.map, x, n) \/ n = i + 1)
                /\ is_fully_suppressed(map, x) <=> is_fully_suppressed(ref.map, x)
                /\ \A y \in DirChecks \ {x} :
                      /\ HasKey(map, y) <=> HasKey(ref.map, y)
                      /\ HasKey(map, y) => map[y] = ref.map[y]

\* A disable-next-line between plain lines: only the next line is suppressed.
C5_Witness ==
    /\ pcD = "done"
    /\ \E i \in DOMAIN input : \E x \in DirChecks :
          /\ IsNextLineOnly(input[i], x)
          /\ is_suppressed(map, x, i + 1)
          /\ ~is_suppressed(map, x, i)
          /\ ~is_suppressed(map, x, i + 2)
          /\ ~is_fully_suppressed(map, x)


---------------------------------------------------------------------------
\* The lint engine (lint.rs).
\*
\* The checks are collaborators: what they compute from the content is the
\* record `ext`.  A finding is represented by its location tag alone (its
\* sentence_num or paragraph_num); its payload plays no part in run_lint.
\* A percentage is an f64 value, kept bit for bit.
\* An AnalysisResult is [ok |-> TRUE, val |-> v] or [ok |-> FALSE, err |-> e].

Ok(v) == [ok |-> TRUE, val |-> v]
Err(e) == [ok |-> FALSE, err |-> e]

\* Option::or
OrElse(a, b) == IF IsSome(a) THEN a ELSE b

\* Vec::retain on a vector of location tags.
RECURSIVE Retain(_, _)
Retain(s, keep) ==
    IF s = <<>> THEN <<>>
    ELSE IF Head(s) \in keep THEN <<Head(s)>> \o Retain(Tail(s), keep)
    ELSE Retain(Tail(s), keep)

\* f64 values. A finite positive double is [e |-> E, m |-> bits], the 53
\* bits of its significand from the leading 1 down, standing for
\* 1.b2 b3 ... b53 * 2^E; zero has no bits. Every operation rounds to the
\* nearest double, ties to the even significand.
F64Precision == 53

F64Zero == [e |-> 0, m |-> <<>>]

\* The binary digits of a positive integer, the highest first.
RECURSIVE BitsOf(_)
BitsOf(n) == IF n < 2 THEN <<n>> ELSE Append(BitsOf(n \div 2), n % 2)

\* The value of a sequence of binary digits.
RECURSIVE NatOf(_)
NatOf(bits) ==
    IF bits = <<>> THEN 0 ELSE 2 * NatOf(SubSeq(bits, 1, Len(bits) - 1)) + bits[Len(bits)]

PadRight(bits, len) ==
    IF Len(bits) >= len THEN bits ELSE bits \o [k \in 1..(len - Len(bits)) |-> 0]

\* bits + 1, for digits that are not all 1.
Increment(bits) ==
    LET zero == Max({k \in DOMAIN bits : bits[k] = 0})
    IN SubSeq(bits, 1, zero - 1) \o <<1>> \o [k \in 1..(Len(bits) - zero) |-> 0]

\* The double nearest to 1.b2 b3 ... * 2^e, where `bits` has at least 54
\* digits and `sticky` tells that digits dropped after them were not all 0.
RoundToNearest(bits, sticky, e) ==
    LET keep == SubSeq(bits, 1, F64Precision)
        guard == bits[F64Precision + 1]
        rest == sticky \/ \E k \in (F64Precision + 2)..Len(bits) : bits[k] = 1
        up == guard = 1 /\ (rest \/ keep[F64Precision] = 1)
    IN IF ~up THEN [e |-> e, m |-> keep]
       ELSE IF \A k \in DOMAIN keep : keep[k] = 1
       THEN [e |-> e + 1, m |-> PadRight(<<1>>, F64Precision)]
       ELSE [e |-> e, m |-> Increment(keep)]

\* `n as f64`, exact for the integers below 2^53
F64FromNat(n) ==
    IF n = 0 THEN F64Zero
    ELSE LET bits == BitsOf(n) IN [e |-> Len(bits) - 1, m |-> PadRight(bits, F64Precision)]

\* Products and quotients are computed on the digits of the significand in
\* base 2^ChunkBits, for integers n below 2^15.
ChunkBits == 16

ChunkBase == 2^ChunkBits

\* The digits of `bits` in base ChunkBase, the highest first.
ChunksOf(bits) ==
    LET count == (Len(bits) + ChunkBits - 1) \div ChunkBits
        pad == count * ChunkBits - Len(bits)
        bit(k) == IF k <= pad THEN 0 ELSE bits[k - pad]
    IN [c \in 1..count |-> NatOf([j \in 1..ChunkBits |-> bit((c - 1) * ChunkBits + j)])]

\* The binary digits of digits in base ChunkBase.
BitsOfChunks(chunks) ==
    [k \in 1..(Len(chunks) * ChunkBits) |->
        (chunks[((k - 1) \div ChunkBits) + 1] \div 2^(ChunkBits - 1 - ((k - 1) % ChunkBits))) % 2]

\* Binary digits without their leading zeros.
StripZeros(bits) ==
    LET ones == {k \in DOMAIN bits : bits[k] = 1}
    IN IF ones = {} THEN <<>>
       ELSE SubSeq(bits, CHOOSE k \in ones : \A j \in ones : k <= j, Len(bits))

\* The digits chunks[i..] times n, and what they carry over.
RECURSIVE TimesFrom(_, _, _)
TimesFrom(chunks, n, i) ==
    IF i > Len(chunks) THEN [carry |-> 0, digits |-> <<>>]
    ELSE LET low == TimesFrom(chunks, n, i + 1)
             p == chunks[i] * n + low.carry
         IN [carry |-> p \div ChunkBase, digits |-> <<p % ChunkBase>> \o low.digits]

\* The binary digits of the exact product of the digits `bits` and n > 0.
Times(bits, n) ==
    LET r == TimesFrom(ChunksOf(bits), n, 1)
    IN StripZeros(BitsOfChunks(<<r.carry>> \o r.digits))

\* x * (n as f64)
F64MulNat(x, n) ==
    IF x.m = <<>> \/ n = 0 THEN F64Zero
    ELSE LET product == Times(x.m, n)
         IN RoundToNearest(PadRight(product, F64Precision + 1), FALSE,
                           x.e + Len(product) - F64Precision)

\* Long division of the digits chunks[i..] by n, `rem` being the remainder
\* of the digits before them.
RECURSIVE DivideFrom(_, _, _, _)
DivideFrom(chunks, n, i, rem) ==
    IF i > Len(chunks) THEN [rem |-> rem, digits |-> <<>>]
    ELSE LET cur == rem * ChunkBase + chunks[i]
             low == DivideFrom(chunks, n, i + 1, cur % n)
         IN [rem |-> low.rem, digits |-> <<cur \div n>> \o low.digits]

\* The binary digits of the quotient of the digits `bits`, shifted left by
\* `shift` places, by n > 0, and whether a remainder is left.
Divide(bits, n) ==
    LET chunks == ChunksOf(bits)
        r == DivideFrom(chunks \o [k \in 1..Len(chunks) |-> 0], n, 1, 0)
    IN [bits |-> StripZeros(BitsOfChunks(r.digits)),
        sticky |-> r.rem # 0,
        shift |-> Len(chunks) * ChunkBits]

\* x / (n as f64), for a positive integer n.
F64DivNat(x, n) ==
    IF x.m = <<>> THEN F64Zero
    ELSE LET d == Divide(x.m, n)
         IN RoundToNearest(d.bits, d.sticky, x.e + Len(d.bits) - Len(x.m) - d.shift)

\* f64::round, as an integer: the nearest integer, halves away from zero.
F64Round(x) ==
    IF x.m = <<>> \/ x.e < -1 THEN 0
    ELSE IF x.e = -1 THEN 1
    ELSE NatOf(SubSeq(x.m, 1, x.e + 1))
         + (IF x.e + 2 <= F64Precision /\ x.m[x.e + 2] = 1 THEN 1 ELSE 0)

\* x > y
F64Gt(x, y) ==
    IF x.m = <<>> THEN FALSE
    ELSE IF y.m = <<>> THEN TRUE
    ELSE IF x.e # y.e THEN x.e > y.e
    ELSE \E k \in DOMAIN x.m :
            /\ x.m[k] > y.m[k]
            /\ \A j \in 1..(k - 1) : x.m[j] = y.m[j]

\* (count as f64 / total as f64) * 100.0, or 0.0 when total is 0
PercentageOf(count, total) ==
    IF total > 0 THEN F64MulNat(F64DivNat(F64FromNat(count), total), 100) ELSE F64Zero

\* The largest count of which a percentage is taken.
PercentageRange == 25

Percentages == [c \in 0..PercentageRange, t \in 0..PercentageRange |-> PercentageOf(c, t)]

\* (count as f64 / total as f64) * 100.0, or 0.0 when total is 0, for counts
\* up to PercentageRange.
Percentage(count, total) == Percentages[count, total]

\* (v * 10.0).round() / 10.0
Round1Of(v) == F64DivNat(F64FromNat(F64Round(F64MulNat(v, 10))), 10)

\* The roundings of the percentages above, computed once.
Rounded ==
    [v \in {Percentages[c, t] : c \in 0..PercentageRange, t \in 0..PercentageRange} |->
        Round1Of(v)]

\* complex_paragraphs::round1
round1(v) == IF v \in DOMAIN Rounded THEN Rounded[v] ELSE Round1Of(v)

\* percentage > max, for a threshold that is a whole number
Exceeds(pct, max) == F64Gt(pct, F64FromNat(max))

ALL_CHECKS ==
    << "readability", "grammar", "sticky", "pacing", "sentence_length", "transitions",
       "overused", "repeated", "echoes", "sensory", "diction", "cliches", "consistency",
       "acronyms", "jargon", "complex_paragraphs", "conjunction_starts", "style" >>

\* readability::check_readability
check_readability(e, max_grade) ==
    IF e.prose_empty \/ e.sentence_count = 0 THEN Err("EmptyInput")
    ELSE Ok([grade |-> e.grade,
             max_grade |-> max_grade,
             over_max |-> IsSome(max_grade) /\ e.grade > Unwrap(max_grade)])

\* grammar::check_grammar_full
check_grammar_full(e, passive_max) ==
    IF e.sentence_count = 0 THEN Err("EmptyInput")
    ELSE LET pct == Percentage(Len(e.passive_voice), e.sentence_count) IN
         Ok([issues |-> e.issues,
             passive_voice |-> e.passive_voice,
             passive_count |-> Len(e.passive_voice),
             passive_percentage |-> pct,
             sentence_count |-> e.sentence_count,
             passive_max |-> passive_max,
             over_max |-> IsSome(passive_max) /\ Exceeds(pct, Unwrap(passive_max))])

\* completeness::check_completeness
check_completeness(e) ==
    IF e.completeness = "unknown_template" THEN Err("UnknownTemplate")
    ELSE Ok([pass |-> e.completeness = "pass"])

\* tokens::count_tokens
count_tokens(e, budget, backend) ==
    LET count == e.token_count[backend] IN
    Ok([count |-> count,
        budget |-> budget,
        over_budget |-> IsSome(budget) /\ count > Unwrap(budget),
        tokenizer |-> backend])

\* Option::unwrap_or_default on Option<Backend>: Backend::Claude
UnwrapOrDefaultBackend(o) == IF IsSome(o) THEN Unwrap(o) ELSE "claude"

Min2(a, b) == IF a < b THEN a ELSE b
Max2(a, b) == IF a > b THEN a ELSE b

\* style::calculate_style_score: 100, minus 2 per passive (at most 20), minus
\* the deductions for adverbs, hidden verbs, glue and vague words, which
\* come in halves of a point; the cast to i32 truncates.
calculate_style_score(e, passive_count) ==
    Max2(0, (200 - Min2(passive_count * 4, 40) - e.style_other_halves) \div 2)

\* A sub-report of the analysis that run_lint never looks into.
Opaque(name) == [check |-> name]

\* Option::ok
OkOpt(r) == IF r.ok THEN Some(r.val) ELSE None


\* analysis::run_full_analysis
run_full_analysis(e, checks, max_grade, passive_max) ==
    IF e.prose_empty THEN Err("EmptyInput")
    ELSE
    LET enabled == IF IsNone(checks) THEN Range(ALL_CHECKS) ELSE Range(Unwrap(checks))
        On(name, rep) == IF name \in enabled THEN Some(rep) ELSE None
        grammar_report ==
            IF "grammar" \in enabled THEN OkOpt(check_grammar_full(e, passive_max)) ELSE None
        passive_count ==
            IF IsSome(grammar_report) THEN Unwrap(grammar_report).passive_count ELSE 0
    IN Ok([readability |->
               IF "readability" \in enabled THEN OkOpt(check_readability(e, max_grade)) ELSE None,
           grammar |-> grammar_report,
           sticky_sentences |-> On("sticky", [sticky_sentences |-> e.sticky,
                                              sticky_count |-> Len(e.sticky)]),
           pacing |-> On("pacing", Opaque("pacing")),
           sentence_length |-> On("sentence_length", [very_long |-> e.very_long]),
           transitions |-> On("transitions", Opaque("transitions")),
           overused_words |-> On("overused", Opaque("overused")),
           repeated_phrases |-> On("repeated", Opaque("repeated")),
           echoes |-> On("echoes", [echoes |-> e.echoes, total_echoes |-> Len(e.echoes)]),
           sensory |-> On("sensory", Opaque("sensory")),
           diction |-> On("diction", Opaque("diction")),
           cliches |-> On("cliches", Opaque("cliches")),
           consistency |-> On("consistency", Opaque("consistency")),
           acronyms |-> On("acronyms", Opaque("acronyms")),
           jargon |-> On("jargon", Opaque("jargon")),
           complex_paragraphs |->
               On("complex_paragraphs",
                  [complex_paragraphs |-> e.complex,
                   complex_count |-> Len(e.complex),
                   percentage |-> round1(Percentage(Len(e.complex), e.paragraph_count))]),
           conjunction_starts |-> On("conjunction_starts", Opaque("conjunction_starts")),
           style |-> On("style", [style_score |-> calculate_style_score(e, passive_count)])])

\* `map.get(num.saturating_sub(1)).copied().unwrap_or(0)`: the source line of
\* the 1-indexed sentence or paragraph `num`, 0 when the map has no entry.
LineOf(line_map, num) ==
    LET i == IF num = 0 THEN 0 ELSE num - 1 IN
    IF i + 1 \in DOMAIN line_map THEN line_map[i + 1] ELSE 0

\* The location tags that `retain` keeps under the suppressions of `check`.
Unsuppressed(sup, check, line_map, tags) ==
    {n \in Range(tags) : ~is_suppressed(sup, check, LineOf(line_map, n))}

\* A variant that filters the findings but keeps the aggregates of the check.
FilterGrammarStale(gr, sup, sentence_map, passive_max) ==
    [gr EXCEPT !.issues = Retain(gr.issues, Unsuppressed(sup, "grammar", sentence_map, gr.issues)),
               !.passive_voice =
                   Retain(gr.passive_voice,
                          Unsuppressed(sup, "grammar", sentence_map, gr.passive_voice))]

\* Filtering and recomputation of a GrammarReport (lint.rs 127-148, 248-261).
FilterGrammar(gr, sup, sentence_map, passive_max) ==
    LET pv == Retain(gr.passive_voice, Unsuppressed(sup, "grammar", sentence_map, gr.passive_voice))
        pct == Percentage(Len(pv), gr.sentence_count)
    IN [gr EXCEPT !.issues = Retain(gr.issues, Unsuppressed(sup, "grammar", sentence_map, gr.issues)),
                  !.passive_voice = pv,
                  !.passive_count = Len(pv),
                  !.passive_percentage = pct,
                  !.over_max = IsSome(passive_max) /\ Exceeds(pct, Unwrap(passive_max))]

FilterSticky(ss, sup, sentence_map) ==
    LET kept == Retain(ss.sticky_sentences,
                       Unsuppressed(sup, "sticky_sentences", sentence_map, ss.sticky_sentences))
    IN [ss EXCEPT !.sticky_sentences = kept, !.sticky_count = Len(kept)]

FilterSentenceLength(sl, sup, sentence_map) ==
    [sl EXCEPT !.very_long =
        Retain(sl.very_long, Unsuppressed(sup, "sentence_length", sentence_map, sl.very_long))]

FilterComplex(cp, sup, paragraph_map) ==
    LET kept == Retain(cp.complex_paragraphs,
                       Unsuppressed(sup, "complex_paragraphs", paragraph_map, cp.complex_paragraphs))
    IN [cp EXCEPT !.complex_paragraphs = kept,
                  !.complex_count = Len(kept),
                  !.percentage = Percentage(Len(kept), Len(paragraph_map))]

FilterEchoes(er, sup, paragraph_map) ==
    LET kept == Retain(er.echoes, Unsuppressed(sup, "echoes", paragraph_map, er.echoes))
    IN [er EXCEPT !.echoes = kept, !.total_echoes = Len(kept)]

\* lint::filter_analysis_report
filter_analysis_report(report, e, sup) ==
    [report EXCEPT
        !.grammar = IF IsSome(@)
                    THEN Some(FilterGrammar(Unwrap(@), sup, e.sentence_map, Unwrap(@).passive_max))
                    ELSE None,
        !.sticky_sentences = IF IsSome(@) THEN Some(FilterSticky(Unwrap(@), sup, e.sentence_map))
                             ELSE None,
        !.sentence_length = IF IsSome(@)
                            THEN Some(FilterSentenceLength(Unwrap(@), sup, e.sentence_map))
                            ELSE None,
        !.complex_paragraphs = IF IsSome(@) THEN Some(FilterComplex(Unwrap(@), sup, e.paragraph_map))
                               ELSE None,
        !.echoes = IF IsSome(@) THEN Some(FilterEchoes(Unwrap(@), sup, e.paragraph_map))
                   ELSE None]

\* `ALL_CHECKS.iter().filter(|name| !excluded.contains(*name))`
RECURSIVE Without(_, _)
Without(names, excluded) ==
    IF names = <<>> THEN <<>>
    ELSE IF Head(names) \in excluded THEN Without(Tail(names), excluded)
    ELSE <<Head(names)>> \o Without(Tail(names), excluded)

\* A variant in which `checks` wins when both lists are given.
resolve_analyze_checks_lenient(ac) ==
    IF IsSome(ac.checks) THEN Ok(ac.checks)
    ELSE IF IsSome(ac.exclude) THEN Ok(Some(Without(ALL_CHECKS, Range(Unwrap(ac.exclude)))))
    ELSE Ok(None)

\* lint::resolve_analyze_checks
resolve_analyze_checks(ac) ==
    CASE IsSome(ac.checks) /\ IsNone(ac.exclude) -> Ok(ac.checks)
      [] IsNone(ac.checks) /\ IsSome(ac.exclude) ->
             Ok(Some(Without(ALL_CHECKS, Range(Unwrap(ac.exclude)))))
      [] IsSome(ac.checks) /\ IsSome(ac.exclude) -> Err("ConflictingConfig")
      [] OTHER -> Ok(None)


\* The locals of run_lint after `let mut pass = true`: nothing has run, no
\* sub-report exists, no error has been returned.
EmptyRun ==
    [pass |-> TRUE,
     reports |-> [t \in CheckTypes |-> None],
     ran |-> <<>>,
     err |-> None]

\* `checks.retain(|c| !suppressions.is_fully_suppressed(c))` under its guards.
RetainChecks(check_list, sup) ==
    IF ~is_empty(sup) /\ IsSome(check_list)
    THEN Some(Retain(Unwrap(check_list),
                     {c \in Range(Unwrap(check_list)) : ~is_fully_suppressed(sup, c)}))
    ELSE check_list

\* run_lint, the analyze block (lint.rs 62-101).
AnalyzeBlock(st, sup, res, cfg, e) ==
    IF IsNone(res.analyze) THEN st
    ELSE
    LET ac == Unwrap(res.analyze)
        r == resolve_analyze_checks(ac)
    IN IF ~r.ok THEN [st EXCEPT !.err = Some(r.err)]
       ELSE
       LET check_list == RetainChecks(r.val, sup) IN
       IF IsSome(check_list) /\ Unwrap(check_list) = <<>> THEN st
       ELSE
       LET a == run_full_analysis(e, check_list, OrElse(ac.max_grade, cfg.max_grade),
                                  OrElse(ac.passive_max, cfg.passive_max_percent))
           st1 == [st EXCEPT !.ran = Append(@, "analyze")]
       IN IF ~a.ok THEN [st1 EXCEPT !.err = Some(a.err)]
          ELSE
          LET report == IF ~is_empty(sup) THEN filter_analysis_report(a.val, e, sup) ELSE a.val
              style_min == OrElse(ac.style_min, cfg.style_min_score)
              fails == IsSome(style_min) /\ IsSome(report.style)
                       /\ Unwrap(report.style).style_score < Unwrap(style_min)
          IN [st1 EXCEPT !.reports["analyze"] = Some(report),
                         !.pass = IF fails THEN FALSE ELSE @]

\* run_lint, the readability block (lint.rs 104-115).
ReadabilityBlock(st, sup, res, cfg, e) ==
    IF IsSome(res.readability) /\ ~is_fully_suppressed(sup, "readability")
    THEN LET r == check_readability(e, OrElse(Unwrap(res.readability).max_grade, cfg.max_grade))
             st1 == [st EXCEPT !.ran = Append(@, "readability")]
         IN IF ~r.ok THEN [st1 EXCEPT !.err = Some(r.err)]
            ELSE [st1 EXCEPT !.reports["readability"] = Some(r.val),
                             !.pass = IF r.val.over_max THEN FALSE ELSE @]
    ELSE st

\* run_lint, the grammar block (lint.rs 118-156).
GrammarBlock(st, sup, res, cfg, e) ==
    IF IsSome(res.grammar) /\ ~is_fully_suppressed(sup, "grammar")
    THEN LET passive_max == OrElse(Unwrap(res.grammar).passive_max, cfg.passive_max_percent)
             r == check_grammar_full(e, passive_max)
             st1 == [st EXCEPT !.ran = Append(@, "grammar")]
         IN IF ~r.ok THEN [st1 EXCEPT !.err = Some(r.err)]
            ELSE LET report == IF ~is_empty(sup)
                               THEN FilterGrammar(r.val, sup, e.sentence_map, passive_max)
                               ELSE r.val
                 IN [st1 EXCEPT !.reports["grammar"] = Some(report),
                                !.pass = IF report.over_max THEN FALSE ELSE @]
    ELSE st

\* run_lint, the completeness block (lint.rs 159-170).
CompletenessBlock(st, sup, res, cfg, e) ==
    IF IsSome(res.completeness) /\ ~is_fully_suppressed(sup, "completeness")
    THEN LET r == check_completeness(e)
             st1 == [st EXCEPT !.ran = Append(@, "completeness")]
         IN IF ~r.ok THEN [st1 EXCEPT !.err = Some(r.err)]
            ELSE [st1 EXCEPT !.reports["completeness"] = Some(r.val),
                             !.pass = IF ~r.val.pass THEN FALSE ELSE @]
    ELSE st

\* run_lint, the tokens block (lint.rs 173-184).
TokensBlock(st, sup, res, cfg, e) ==
    IF IsSome(res.tokens) /\ ~is_fully_suppressed(sup, "tokens")
    THEN LET tc == Unwrap(res.tokens)
             backend == UnwrapOrDefaultBackend(OrElse(tc.tokenizer, cfg.tokenizer))
             r == count_tokens(e, tc.budget, backend)
             st1 == [st EXCEPT !.ran = Append(@, "tokens")]
         IN IF ~r.ok THEN [st1 EXCEPT !.err = Some(r.err)]
            ELSE [st1 EXCEPT !.reports["tokens"] = Some(r.val),
                             !.pass = IF r.val.over_budget THEN FALSE ELSE @]
    ELSE st

\* `Ok(LintReport { ... })`
LintReport(st) ==
    [analyze |-> st.reports["analyze"],
     readability |-> st.reports["readability"],
     grammar |-> st.reports["grammar"],
     completeness |-> st.reports["completeness"],
     tokens |-> st.reports["tokens"],
     pass |-> st.pass]


\* run_lint as a function of its arguments: the blocks in order, each `?`
\* returning the error at once.
RECURSIVE RunBlocks(_, _, _, _, _, _)
RunBlocks(st, blocks, sup, res, cfg, e) ==
    IF blocks = <<>> \/ IsSome(st.err) THEN st
    ELSE LET b == Head(blocks)
             st1 == CASE b = "analyze" -> AnalyzeBlock(st, sup, res, cfg, e)
                      [] b = "readability" -> ReadabilityBlock(st, sup, res, cfg, e)
                      [] b = "grammar" -> GrammarBlock(st, sup, res, cfg, e)
                      [] b = "completeness" -> CompletenessBlock(st, sup, res, cfg, e)
                      [] b = "tokens" -> TokensBlock(st, sup, res, cfg, e)
         IN RunBlocks(st1, Tail(blocks), sup, res, cfg, e)

BlockOrder == <<"analyze", "readability", "grammar", "completeness", "tokens">>

run_lint(doc, res, cfg, e) ==
    LET st == RunBlocks(EmptyRun, BlockOrder, parse_suppressions(doc), res, cfg, e) IN
    IF IsSome(st.err) THEN Err(Unwrap(st.err)) ELSE Ok(LintReport(st))


---------------------------------------------------------------------------
\* Bounded inputs of the lint specification.

\* The most sentences of a document whose findings are filtered by region.
MaxSent == 2

\* A line without a directive.
Prose == <<>>

ProseLines(doc) == {i \in DOMAIN doc : doc[i] = Prose}

\* The elements of a set of numbers in ascending order.
RECURSIVE Sorted(_)
Sorted(S) == IF S = {} THEN <<>> ELSE LET x == Max(S) IN Append(Sorted(S \ {x}), x)

\* The lines of `line_map` without repetition: one paragraph per line on
\* which a sentence starts.
ParagraphStarts(line_map) == Sorted(Range(line_map))

\* The sentence line maps of a document with n sentences: each sentence
\* starts on a line without a directive, in document order.
LineMaps(doc, n) ==
    {m \in [1..n -> ProseLines(doc)] : \A i \in 1..n : \A j \in i..n : m[i] <= m[j]}

\* A document with one defect at most: two sentences on lines 2 and 3 of one
\* paragraph, and the results of the checks on it.
Profile(grade, passive, other, completeness, tokens) ==
    [prose_empty |-> FALSE, sentence_count |-> 2, paragraph_count |-> 1,
     grade |-> grade, issues |-> <<>>, passive_voice |-> passive,
     sticky |-> <<>>, very_long |-> <<>>, complex |-> <<>>, echoes |-> <<>>,
     style_other_halves |-> other, completeness |-> completeness,
     token_count |-> [claude |-> tokens, openai |-> 110 - tokens],
     sentence_map |-> <<2, 3>>, paragraph_map |-> <<2>>]

\* A document without a sentence; `blank` when nothing but whitespace is left
\* of it.
NoSentence(blank) ==
    [Profile(2, <<>>, 0, "pass", 10) EXCEPT
        !.prose_empty = blank, !.sentence_count = 0,
        !.paragraph_count = IF blank THEN 0 ELSE 1,
        !.sentence_map = <<>>, !.paragraph_map = <<>>]

GateExts ==
    { Profile(g, <<>>, 0, "pass", 10) : g \in {2, 5, 12} }
    \cup { Profile(2, pv, 0, "pass", 10) : pv \in {<<1>>, <<1, 2>>} }
    \cup { Profile(2, <<>>, 5, "pass", 10) }
    \cup { Profile(2, <<>>, 0, c, 10) : c \in {"fail", "unknown_template"} }
    \cup { Profile(2, <<>>, 0, "pass", 100) }
    \cup { Profile(12, <<1, 2>>, 5, "fail", 100) }
    \cup { NoSentence(b) : b \in BOOLEAN }

\* A document with n sentences whose findings are: passive voice in the
\* sentences F1, every other sentence finding in the sentences F2, every
\* paragraph finding in the paragraphs in which a sentence of F2 starts.
FilterExt(n, smap, F1, F2) ==
    LET pmap == ParagraphStarts(smap)
        G == {p \in DOMAIN pmap : \E i \in F2 : smap[i] = pmap[p]}
    IN [prose_empty |-> FALSE, sentence_count |-> n, paragraph_count |-> Len(pmap),
        grade |-> 2, issues |-> Sorted(F2), passive_voice |-> Sorted(F1),
        sticky |-> Sorted(F2), very_long |-> Sorted(F2),
        complex |-> Sorted(G), echoes |-> Sorted(G),
        style_other_halves |-> 0, completeness |-> "pass",
        token_count |-> [claude |-> 10, openai |-> 100],
        sentence_map |-> smap, paragraph_map |-> pmap]

FilterExts(doc) ==
    UNION { { FilterExt(n, smap, F1, F2) : smap \in LineMaps(doc, n),
                                            F1 \in SUBSET (1..n), F2 \in SUBSET (1..n) }
            : n \in 1..MaxSent }

\* Documents whose only directive is an unclosed disable on line 1.
GateDocs ==
    { <<Prose, Prose, Prose>> }
    \cup { << <<Dir("disable", <<c>>)>>, Prose, Prose >> : c \in CheckTypes \cup {"style"} }

\* The names under which a region is disabled.
RegionChecks ==
    {"grammar", "sticky", "sticky_sentences", "sentence_length", "complex_paragraphs", "echoes"}

\* Documents with a disabled region (lines 2 to 4) or a disabled line 3.
FilterDocs ==
    { <<Prose, <<Dir("disable", <<c>>)>>, Prose, <<Dir("enable", <<c>>)>>, Prose>>
        : c \in RegionChecks }
    \cup { <<Prose, <<Dir("disable-next-line", <<c>>)>>, Prose, Prose, Prose>>
        : c \in {"grammar", "echoes"} }


\* AnalyzeRuleConfig
AnalyzeCfg(checks, exclude, max_grade, passive_max, style_min) ==
    [checks |-> checks, exclude |-> exclude,
     max_grade |-> max_grade, passive_max |-> passive_max, style_min |-> style_min,
     dialect |-> None]

\* ResolvedChecks
Resolved(a, r, g, c, t) ==
    [analyze |-> a, readability |-> r, grammar |-> g, completeness |-> c, tokens |-> t]

\* Config: the project-wide thresholds
Defaults(max_grade, passive_max_percent, style_min_score) ==
    [max_grade |-> max_grade, passive_max_percent |-> passive_max_percent,
     style_min_score |-> style_min_score,
     dialect |-> None, tokenizer |-> None, token_budget |-> None]

\* TokensRuleConfig
TokensCfg(budget, tokenizer) == [budget |-> budget, tokenizer |-> tokenizer]

GateAnalyzeConfigs ==
    { AnalyzeCfg(None, None, None, None, None),
      AnalyzeCfg(None, None, Some(8), None, None),
      AnalyzeCfg(None, None, None, Some(60), None),
      AnalyzeCfg(None, None, None, None, Some(97)),
      [AnalyzeCfg(None, None, None, None, None) EXCEPT !.dialect = Some("en-gb")],
      AnalyzeCfg(Some(<<"grammar", "style">>), None, None, None, None),
      AnalyzeCfg(Some(<<"style">>), None, None, None, None),
      AnalyzeCfg(None, Some(<<"grammar">>), None, None, None),
      AnalyzeCfg(Some(<<"style">>), Some(<<"grammar">>), None, None, None) }

\* At most two check types are configured for a file.
GateResolved ==
    { res \in
        { Resolved(a, r, g, c, t) :
            a \in {None} \cup {Some(ac) : ac \in GateAnalyzeConfigs},
            r \in {None, Some([max_grade |-> None]), Some([max_grade |-> Some(8)])},
            g \in {None, Some([passive_max |-> None]), Some([passive_max |-> Some(60)])},
            c \in {None, Some([template |-> "adr"])},
            t \in {None, Some(TokensCfg(None, None)), Some(TokensCfg(Some(50), None)),
                   Some(TokensCfg(None, Some("claude")))} } :
        Cardinality({x \in CheckTypes : IsSome(res[x])}) <= 2 }

GateConfigs ==
    { Defaults(None, None, None),
      [Defaults(Some(3), Some(40), Some(99)) EXCEPT
          !.dialect = Some("en-us"), !.tokenizer = Some("openai"), !.token_budget = Some(50)] }

FilterResolved ==
    { Resolved(Some(AnalyzeCfg(None, None, None, Some(40), None)), None, None, None, None),
      Resolved(Some(AnalyzeCfg(None, None, None, None, None)), None, None, None, None),
      Resolved(Some(AnalyzeCfg(Some(<<"grammar", "sticky", "echoes">>), None, None, Some(40), None)),
               None, None, None, None),
      Resolved(None, None, Some([passive_max |-> Some(40)]), None, None),
      Resolved(None, None, Some([passive_max |-> None]), None, None),
      Resolved(Some(AnalyzeCfg(None, None, None, Some(40), None)), None,
               Some([passive_max |-> Some(40)]), None, None) }

\* The arguments of one call of run_lint.
GateInputs ==
    /\ content \in GateDocs
    /\ lintResolved \in GateResolved
    /\ config \in GateConfigs
    /\ ext \in GateExts

FilterInputs ==
    /\ content \in FilterDocs
    /\ lintResolved \in FilterResolved
    /\ config = Defaults(None, None, None)
    /\ ext \in FilterExts(content)

InitLint ==
    /\ IdleRules
    /\ IdleDir
    /\ IdleMap
    /\ IdleText
    /\ GateInputs \/ FilterInputs
    /\ pcL = "start"
    /\ suppressions = <<>>
    /\ pass = EmptyRun.pass
    /\ reports = EmptyRun.reports
    /\ ran = EmptyRun.ran
    /\ outcome = None

\* The locals of run_lint as one record.
Locals == [pass |-> pass, reports |-> reports, ran |-> ran, err |-> None]

\* The effect of one block: its result becomes the locals and control moves
\* on, or its error is returned.
Advance(st, next) ==
    /\ ran' = st.ran
    /\ IF IsSome(st.err)
       THEN /\ outcome' = Some(Err(Unwrap(st.err)))
            /\ pcL' = "done"
            /\ UNCHANGED <<pass, reports>>
       ELSE /\ pass' = st.pass
            /\ reports' = st.reports
            /\ pcL' = next
            /\ UNCHANGED outcome
    /\ UNCHANGED <<content, lintResolved, config, ext, suppressions>>
    /\ UNCHANGED <<varsRules, varsDir, varsMap, varsText>>

\* lint.rs 57-59
LintStart ==
    /\ pcL = "start"
    /\ suppressions' = parse_suppressions(content)
    /\ pcL' = "analyze"
    /\ UNCHANGED <<content, lintResolved, config, ext, pass, reports, ran, outcome>>
    /\ UNCHANGED <<varsRules, varsDir, varsMap, varsText>>

LintAnalyze ==
    /\ pcL = "analyze"
    /\ Advance(AnalyzeBlock(Locals, suppressions, lintResolved, config, ext), "readability")

LintReadability ==
    /\ pcL = "readability"
    /\ Advance(ReadabilityBlock(Locals, suppressions, lintResolved, config, ext), "grammar")

LintGrammar ==
    /\ pcL = "grammar"
    /\ Advance(GrammarBlock(Locals, suppressions, lintResolved, config, ext), "completeness")

LintCompleteness ==
    /\ pcL = "completeness"
    /\ Advance(CompletenessBlock(Locals, suppressions, lintResolved, config, ext), "tokens")

LintTokens ==
    /\ pcL = "tokens"
    /\ Advance(TokensBlock(Locals, suppressions, lintResolved, config, ext), "return")

\* lint.rs 186-194
LintReturn ==
    /\ pcL = "return"
    /\ outcome' = Some(Ok(LintReport(Locals)))
    /\ pcL' = "done"
    /\ UNCHANGED <<content, lintResolved, config, ext, suppressions, pass, reports, ran>>
    /\ UNCHANGED <<varsRules, varsDir, varsMap, varsText>>

NextLint ==
    \/ LintStart
    \/ LintAnalyze
    \/ LintReadability
    \/ LintGrammar
    \/ LintCompleteness
    \/ LintTokens
    \/ LintReturn

SpecLint == InitLint /\ [][NextLint]_vars

\* The returned result equals run_lint as a function of the arguments.
LintDone == pcL = "done"
ReturnsRunLint ==
    LintDone => outcome = Some(run_lint(content, lintResolved, config, ext))


---------------------------------------------------------------------------
\* Properties of run_lint.

Returned == LintDone /\ Unwrap(outcome).ok
Report == Unwrap(outcome).val

\* The suppressions of the document, as parse_suppressions computes them.
Sup == parse_suppressions(content)

\* C6: a configured check type that the document fully suppresses by an
\* unclosed disable is skipped entirely: the call returns what it returns
\* when that type is not configured at all, and the check has not run.
C6_FullySuppressedTypeIsSkipped ==
    LintDone =>
        \A t \in CheckTypes :
            IsSome(lintResolved[t]) /\ is_fully_suppressed(Sup, t)
            => /\ outcome = Some(run_lint(content, [lintResolved EXCEPT ![t] = None], config, ext))
               /\ \A i \in DOMAIN ran : ran[i] # t

\* The gate of the analyze check: none of max_grade, passive_max and
\* style_min is exceeded by the analysis.
AnalyzeGate(a, style_min) ==
    /\ IsSome(a.readability) => ~Unwrap(a.readability).over_max
    /\ IsSome(a.grammar) => ~Unwrap(a.grammar).over_max
    /\ IsSome(a.style) /\ IsSome(style_min) => Unwrap(a.style).style_score >= Unwrap(style_min)

\* The gate of each check type, on its sub-report.
Gate(t, rep) ==
    CASE t = "analyze" ->
             AnalyzeGate(rep, OrElse(Unwrap(lintResolved.analyze).style_min, config.style_min_score))
      [] t = "readability" -> ~rep.over_max
      [] t = "grammar" -> ~rep.over_max
      [] t = "completeness" -> rep.pass
      [] t = "tokens" -> ~rep.over_budget

\* C7: in every returned report, pass is the conjunction of the gates of the
\* checks that ran; it is true when none ran.
C7_PassIsConjunctionOfGates ==
    Returned =>
        /\ \A t \in CheckTypes : IsSome(Report[t]) <=> t \in Range(ran)
        /\ Report.pass <=> \A t \in Range(ran) : Gate(t, Unwrap(Report[t]))

ConflictingSelection ==
    /\ IsSome(lintResolved.analyze)
    /\ IsSome(Unwrap(lintResolved.analyze).checks)
    /\ IsSome(Unwrap(lintResolved.analyze).exclude)

\* C8: when the analyze settings give both `checks` and `exclude`, run_lint
\* returns ConflictingConfig and no report, and no check has run before.
C8_ConflictingSelectionIsFatal ==
    ConflictingSelection =>
        /\ ran = <<>>
        /\ pcL \in {"start", "analyze", "done"}
        /\ LintDone => outcome = Some(Err("ConflictingConfig"))

C8_Witness ==
    /\ ConflictingSelection
    /\ LintDone
    /\ ~is_empty(suppressions)
    /\ \E t \in CheckTypes \ {"analyze"} : IsSome(lintResolved[t])


\* The name under which run_full_analysis selects the sub-check that fills
\* each location-bearing sub-report (analysis/mod.rs 102, 112, 126, 147, 196).
SubCheckName ==
    [grammar |-> "grammar", sticky_sentences |-> "sticky",
     sentence_length |-> "sentence_length", complex_paragraphs |-> "complex_paragraphs",
     echoes |-> "echoes"]

\* `found` holds exactly the findings of `raw` that resolve through
\* `line_map` to a line on which `check` is not suppressed.
ExactlyUnsuppressed(found, raw, check, line_map) ==
    /\ Range(found) \subseteq Range(raw)
    /\ \A n \in Range(raw) :
          n \in Range(found) <=> ~is_suppressed(Sup, check, LineOf(line_map, n))

\* C9: in a report returned for a document with suppressions, the retained
\* findings of the standalone grammar report and of the analyze sub-reports
\* grammar, sticky sentences, sentence length, complex paragraphs and echoes
\* are exactly those on lines where their check is not suppressed.
C9_NoRetainedFindingOnSuppressedLine ==
    Returned /\ ~is_empty(Sup) =>
        /\ IsSome(Report.grammar) =>
              LET gr == Unwrap(Report.grammar) IN
              /\ ExactlyUnsuppressed(gr.issues, ext.issues, "grammar", ext.sentence_map)
              /\ ExactlyUnsuppressed(gr.passive_voice, ext.passive_voice, "grammar",
                                     ext.sentence_map)
        /\ IsSome(Report.analyze) =>
              LET a == Unwrap(Report.analyze) IN
              /\ IsSome(a.grammar) =>
                    /\ ExactlyUnsuppressed(Unwrap(a.grammar).issues, ext.issues,
                                           SubCheckName.grammar, ext.sentence_map)
                    /\ ExactlyUnsuppressed(Unwrap(a.grammar).passive_voice, ext.passive_voice,
                                           SubCheckName.grammar, ext.sentence_map)
              /\ IsSome(a.sticky_sentences) =>
                    ExactlyUnsuppressed(Unwrap(a.sticky_sentences).sticky_sentences, ext.sticky,
                                        SubCheckName.sticky_sentences, ext.sentence_map)
              /\ IsSome(a.sentence_length) =>
                    ExactlyUnsuppressed(Unwrap(a.sentence_length).very_long, ext.very_long,
                                        SubCheckName.sentence_length, ext.sentence_map)
              /\ IsSome(a.complex_paragraphs) =>
                    ExactlyUnsuppressed(Unwrap(a.complex_paragraphs).complex_paragraphs,
                                        ext.complex, SubCheckName.complex_paragraphs,
                                        ext.paragraph_map)
              /\ IsSome(a.echoes) =>
                    ExactlyUnsuppressed(Unwrap(a.echoes).echoes, ext.echoes,
                                        SubCheckName.echoes, ext.paragraph_map)

\* The aggregates of a GrammarReport agree with its findings, the sentence
\* count of the check and the merged passive_max.
GrammarConsistent(gr, passive_max) ==
    /\ gr.passive_count = Len(gr.passive_voice)
    /\ gr.passive_count =
           Cardinality({i \in DOMAIN ext.passive_voice :
               ~is_suppressed(Sup, "grammar", LineOf(ext.sentence_map, ext.passive_voice[i]))})
    /\ gr.sentence_count = ext.sentence_count
    /\ gr.passive_percentage = Percentage(gr.passive_count, gr.sentence_count)
    /\ gr.over_max <=>
           /\ IsSome(passive_max)
           /\ Exceeds(gr.passive_percentage, Unwrap(passive_max))

\* C10: in a report returned for a document with suppressions, the
\* aggregates of every sub-report are those of its retained findings:
\* passive_count, passive_percentage and over_max of each GrammarReport,
\* sticky_count, complex_count and total_echoes.
C10_AggregatesFollowFilteredFindings ==
    Returned /\ ~is_empty(Sup) =>
        /\ IsSome(Report.grammar) =>
              GrammarConsistent(Unwrap(Report.grammar),
                                OrElse(Unwrap(lintResolved.grammar).passive_max,
                                       config.passive_max_percent))
        /\ IsSome(Report.analyze) =>
              LET a == Unwrap(Report.analyze) IN
              /\ IsSome(a.grammar) =>
                    GrammarConsistent(Unwrap(a.grammar),
                                      OrElse(Unwrap(lintResolved.analyze).passive_max,
                                             config.passive_max_percent))
              /\ IsSome(a.sticky_sentences) =>
                    Unwrap(a.sticky_sentences).sticky_count
                        = Len(Unwrap(a.sticky_sentences).sticky_sentences)
              /\ IsSome(a.complex_paragraphs) =>
                    Unwrap(a.complex_paragraphs).complex_count
                        = Len(Unwrap(a.complex_paragraphs).complex_paragraphs)
              /\ IsSome(a.echoes) =>
                    Unwrap(a.echoes).total_echoes = Len(Unwrap(a.echoes).echoes)

\* One of two passive sentences is suppressed, in the standalone report and
\* in the analysis, and the threshold is still exceeded by the other one.
C10_Witness ==
    /\ Returned
    /\ Len(ext.passive_voice) = 2
    /\ IsSome(Report.grammar)
    /\ Unwrap(Report.grammar).passive_count = 1
    /\ Unwrap(Report.grammar).over_max
    /\ IsSome(Report.analyze)
    /\ IsSome(Unwrap(Report.analyze).grammar)
    /\ Unwrap(Unwrap(Report.analyze).grammar).passive_count = 1


---------------------------------------------------------------------------
\* Line maps: the sentences and paragraphs the checks number, and the maps
\* that run_lint resolves their numbers with.
\*
\* A document is the sequence of the kinds of its lines:
\*   "S"  one capitalised sentence ending in a period,
\*   "H"  a markdown heading without a terminator ("# Setup"),
\*   "D"  a directive comment ("<!-- bito-lint disable-next-line grammar -->"),
\*   "B"  a blank line.
\* A text is such a sequence with the flag `flat`, set when the line breaks
\* have been replaced by spaces.

LineKinds == {"S", "H", "D", "B"}

\* directives::is_directive_line
is_directive_line(kind) == kind = "D"

\* lint::strip_directives_preserving_lines
strip_directives_preserving_lines(doc) ==
    [lines |-> [i \in DOMAIN doc |-> IF is_directive_line(doc[i]) THEN "B" ELSE doc[i]],
     flat |-> FALSE]

\* markdown::strip_to_prose: headings and HTML are dropped, soft breaks and
\* paragraph ends become spaces.
strip_to_prose(doc) ==
    [lines |-> [i \in DOMAIN doc |-> IF doc[i] = "S" THEN "S" ELSE "B"],
     flat |-> TRUE]

\* `if strip_md { markdown::strip_to_prose(input) } else { input.to_string() }`
AnalysedProse(doc, strip) == IF strip THEN strip_to_prose(doc) ELSE [lines |-> doc, flat |-> FALSE]

\* text::split_sentences, by the source line on which each sentence starts.
\* st.open is the line on which the current sentence started, 0 when
\* `current` holds no text yet; a sentence line ends the current sentence,
\* what is left at the end of the text is the last sentence.  The '!' of
\* the "<!--" of a directive line is a terminator followed by '-': it ends
\* the current sentence, which is kept when there was text before the "<!"
\* (the two characters alone are shorter than min_length), and the rest of
\* the comment starts the next one.
RECURSIVE ScanSentences(_, _, _)
ScanSentences(lines, i, st) ==
    IF i > Len(lines)
    THEN IF st.open # 0 THEN Append(st.starts, st.open) ELSE st.starts
    ELSE LET start == IF st.open # 0 THEN st.open ELSE i IN
         CASE lines[i] = "S" ->
                  ScanSentences(lines, i + 1, [starts |-> Append(st.starts, start), open |-> 0])
           [] lines[i] = "B" -> ScanSentences(lines, i + 1, st)
           [] lines[i] = "D" ->
                  ScanSentences(lines, i + 1,
                      [starts |-> IF st.open # 0 THEN Append(st.starts, st.open) ELSE st.starts,
                       open |-> i])
           [] OTHER -> ScanSentences(lines, i + 1, [st EXCEPT !.open = start])

split_sentences_lines(t) == ScanSentences(t.lines, 1, [starts |-> <<>>, open |-> 0])

\* text::split_paragraphs, by the source line on which each paragraph
\* starts: the blocks between blank lines, one block when the text is flat.
split_paragraphs_lines(t) ==
    LET textLines == {i \in DOMAIN t.lines : t.lines[i] # "B"}
        first == {i \in textLines : i = 1 \/ t.lines[i - 1] = "B"}
    IN IF textLines = {} THEN <<>>
       ELSE IF t.flat THEN <<CHOOSE i \in textLines : \A j \in textLines : i <= j>>
       ELSE Sorted(first)

\* text::build_sentence_line_map: the line on which each sentence of the
\* given text starts.
build_sentence_line_map(t) == split_sentences_lines(t)

\* text::build_paragraph_line_map: the line on which each paragraph of the
\* given text starts.
build_paragraph_line_map(t) == split_paragraphs_lines(t)

\* The longest document.
MaxDocLines == 4

InitMap ==
    /\ IdleRules
    /\ IdleDir
    /\ IdleLint
    /\ IdleText
    /\ \E n \in 1..MaxDocLines : mdLines \in [1..n -> LineKinds]
    /\ strip_md \in BOOLEAN
    /\ analysed = <<>>
    /\ line_maps = <<>>
    /\ pcM = "check"

\* The directives on the lines of a document, as parse_suppressions reads
\* them.
DirectivesOf(doc) ==
    [i \in DOMAIN doc |->
        IF is_directive_line(doc[i])
        THEN <<[action |-> "disable-next-line", checks |-> <<"grammar">>]>>
        ELSE <<>>]

\* `directives::parse_suppressions(content)` (lint.rs 58)
MapSuppressions == parse_suppressions(DirectivesOf(mdLines))

\* A check splits the prose it analyses and numbers its findings by the
\* sentences and paragraphs of that prose (grammar/mod.rs 63-68,
\* analysis/mod.rs 76-93); on prose without a sentence it returns
\* EmptyInput, which run_lint returns at once.  run_lint goes on to filter
\* only `if !suppressions.is_empty()` (lint.rs 88, 124).
MapCheck ==
    /\ pcM = "check"
    /\ LET prose == AnalysedProse(mdLines, strip_md) IN
       IF split_sentences_lines(prose) = <<>>
       THEN /\ analysed' = analysed
            /\ pcM' = "error"
       ELSE /\ analysed' = [sentence |-> split_sentences_lines(prose),
                            paragraph |-> split_paragraphs_lines(prose)]
            /\ pcM' = IF ~is_empty(MapSuppressions) THEN "filter" ELSE "done"
    /\ UNCHANGED <<mdLines, strip_md, line_maps>>
    /\ UNCHANGED <<varsRules, varsDir, varsLint, varsText>>

\* The filter builds its line maps (lint.rs 125-126, 226-228).
MapFilter ==
    /\ pcM = "filter"
    /\ LET clean == strip_directives_preserving_lines(mdLines) IN
       line_maps' = [sentence |-> build_sentence_line_map(clean),
                     paragraph |-> build_paragraph_line_map(clean)]
    /\ pcM' = "done"
    /\ UNCHANGED <<mdLines, strip_md, analysed>>
    /\ UNCHANGED <<varsRules, varsDir, varsLint, varsText>>

NextMap == MapCheck \/ MapFilter

SpecMap == InitMap /\ [][NextMap]_vars

\* run_lint has filtered the findings of the check.
MapFiltered == pcM = "done" /\ ~is_empty(MapSuppressions)

\* C11: when run_lint filters, finding number k of a check resolves to the
\* line on which the k-th sentence (paragraph) that the check analysed
\* starts, also for files to which markdown stripping applies.
C11_LineMapsFollowAnalysedText ==
    MapFiltered =>
        /\ line_maps.sentence = analysed.sentence
        /\ line_maps.paragraph = analysed.paragraph


\* The value a check is to receive for a setting: the rule's when the rule
\* sets it, otherwise the project's.
Cascade(rule, project) == IF rule # None THEN rule ELSE project

\* C12: every setting with a project-level counterpart reaches its check as
\* the rule's value when the rule sets it, otherwise as the project default,
\* otherwise as the built-in default or no threshold: max_grade,
\* passive_max and style_min of analyze, max_grade of readability,
\* passive_max of grammar, tokenizer and budget of tokens. (The dialect of
\* analyze does not reach the report: run_full_analysis takes none.)
C12_RuleSettingsOverProjectDefaults ==
    Returned =>
        /\ IsSome(Report.readability) =>
              Unwrap(Report.readability).max_grade
                  = Cascade(Unwrap(lintResolved.readability).max_grade, config.max_grade)
        /\ IsSome(Report.grammar) =>
              Unwrap(Report.grammar).passive_max
                  = Cascade(Unwrap(lintResolved.grammar).passive_max, config.passive_max_percent)
        /\ IsSome(Report.tokens) =>
              LET tc == Unwrap(lintResolved.tokens)
                  tokenizer == Cascade(tc.tokenizer, config.tokenizer)
              IN /\ Unwrap(Report.tokens).tokenizer
                        = (IF tokenizer # None THEN Unwrap(tokenizer) ELSE "claude")
                 /\ Unwrap(Report.tokens).budget = Cascade(tc.budget, config.token_budget)
        /\ IsSome(Report.analyze) =>
              LET ac == Unwrap(lintResolved.analyze)
                  a == Unwrap(Report.analyze)
                  style_min == Cascade(ac.style_min, config.style_min_score)
              IN /\ IsSome(a.readability) =>
                        Unwrap(a.readability).max_grade = Cascade(ac.max_grade, config.max_grade)
                 /\ IsSome(a.grammar) =>
                        Unwrap(a.grammar).passive_max
                            = Cascade(ac.passive_max, config.passive_max_percent)
                 /\ IsSome(a.style) /\ Range(ran) = {"analyze"} =>
                        (Report.pass <=>
                            ~(style_min # None /\ Unwrap(a.style).style_score < Unwrap(style_min)))


\* The sub-checks that run_lint asks the analysis for (all of them for None).
AnalyzeList ==
    RetainChecks(resolve_analyze_checks(Unwrap(lintResolved.analyze)).val, Sup)

SubCheckRuns(name) ==
    IsNone(AnalyzeList) \/ name \in Range(Unwrap(AnalyzeList))

\* The errors raised by the checks that ran, the readability and grammar
\* sub-checks of the analysis included.
RaisedBy(t) ==
    CASE t = "analyze" ->
             LET ac == Unwrap(lintResolved.analyze)
                 max_grade == OrElse(ac.max_grade, config.max_grade)
                 passive_max == OrElse(ac.passive_max, config.passive_max_percent)
                 whole == run_full_analysis(ext, AnalyzeList, max_grade, passive_max)
                 rd == check_readability(ext, max_grade)
                 gr == check_grammar_full(ext, passive_max)
             IN IF ~whole.ok THEN {whole.err}
                ELSE {rd.err : x \in {y \in {1} : SubCheckRuns("readability") /\ ~rd.ok}}
                     \cup {gr.err : x \in {y \in {1} : SubCheckRuns("grammar") /\ ~gr.ok}}
      [] t = "readability" ->
             LET r == check_readability(ext, None) IN IF r.ok THEN {} ELSE {r.err}
      [] t = "grammar" ->
             LET r == check_grammar_full(ext, None) IN IF r.ok THEN {} ELSE {r.err}
      [] t = "completeness" ->
             LET r == check_completeness(ext) IN IF r.ok THEN {} ELSE {r.err}
      [] t = "tokens" -> {}

Raised == UNION {RaisedBy(t) : t \in Range(ran)}

\* C13: run_lint ends with a complete report or with one error and no
\* report; every error raised by a check that ran, the readability and
\* grammar sub-checks of analyze included, is the error returned.
C13_CheckErrorsAreReturned ==
    LintDone =>
        /\ Unwrap(outcome).ok => DOMAIN Unwrap(outcome) = {"ok", "val"} /\ Raised = {}
        /\ ~Unwrap(outcome).ok =>
              /\ DOMAIN Unwrap(outcome) = {"ok", "err"}
              /\ Unwrap(outcome).err \in Raised \cup {"ConflictingConfig"}

---------------------------------------------------------------------------
\* Specificity of a pattern.

\* The number of '/'-separated segments of a pattern that hold no glob
\* metacharacter, counted in one walk over the characters: `clean` tells
\* whether the segment being read has held none so far.
RECURSIVE LiteralSegmentsFrom(_, _)
LiteralSegmentsFrom(chars, clean) ==
    IF chars = <<>> THEN (IF clean THEN 1 ELSE 0)
    ELSE IF Head(chars) = "/"
    THEN (IF clean THEN 1 ELSE 0) + LiteralSegmentsFrom(Tail(chars), TRUE)
    ELSE LiteralSegmentsFrom(Tail(chars), clean /\ Head(chars) \notin {"*", "?", "["})

LiteralSegments(pattern) == LiteralSegmentsFrom(pattern, TRUE)

\* The number of '/'-separated segments of a pattern.
SegmentCount(pattern) == 1 + Cardinality({k \in DOMAIN pattern : pattern[k] = "/"})

\* C14: the specificity recorded for a compiled pattern is the number of its
\* '/'-separated segments that contain none of '*', '?' and '['; it never
\* exceeds the number of segments; "**/*.md" has 0, "docs/**/*.md" has 1,
\* "docs/decisions/*.md" has 2 and "README.md" has 1.
C14_SpecificityCountsLiteralSegments ==
    /\ \A i \in DOMAIN compiled : \A j \in DOMAIN compiled[i].matchers :
          LET mt == compiled[i].matchers[j] IN
          /\ mt.spec = LiteralSegments(mt.glob)
          /\ mt.spec <= SegmentCount(mt.glob)
    /\ specificity(PatAnyMd) = 0
    /\ specificity(PatDocsTree) = 1
    /\ specificity(PatDecisions) = 2
    /\ specificity(PatReadme) = 1

\* A rule with a two-literal pattern and a wildcard-only pattern was compiled
\* and used to resolve a path.
C14_Witness ==
    /\ IsSome(resolved)
    /\ \E i \in DOMAIN compiled :
          /\ Len(compiled[i].matchers) = 2
          /\ compiled[i].matchers[1].spec = 2
          /\ compiled[i].matchers[2].spec = 0

---------------------------------------------------------------------------
\* Rule lists in which some patterns do not compile.

CompilePathLists ==
    { <<PatInvalid>>, <<PatInvalid, PatDocsMd>>, <<PatDecisions, PatInvalid>>, <<PatAnyMd>>,
      <<PatEverything>> }

CompileCheckSubsets == { {}, {"analyze"}, {"grammar"}, {"analyze", "completeness"} }

InitCompile ==
    /\ IdleDir
    /\ IdleLint
    /\ IdleMap
    /\ IdleText
    /\ \E n \in 0..MaxRules :
          \E ps \in [1..n -> CompilePathLists], on \in [1..n -> CompileCheckSubsets] :
              rules = [i \in 1..n |-> RuleAt(i, ps[i], on[i])]
    /\ compiled = compile(rules)
    /\ resolved = None

SpecCompile == InitCompile /\ [][NextRules]_vars

\* The positions of the patterns of rule i that compile, and the declared
\* rules that have one.
ValidAt(i) == {j \in DOMAIN rules[i].paths : GlobCompiles(rules[i].paths[j])}
Surviving == {i \in DOMAIN rules : ValidAt(i) # {}}

\* The position an element of a set of numbers takes when the set is listed
\* in increasing order.
RankIn(S, x) == Cardinality({y \in S : y <= x})

\* The declared rules that apply to a path through a compiling pattern and
\* configure check type t, and the specificity each applies with.
DeclaredCandidates(path, t) ==
    {i \in Surviving : /\ IsSome(rules[i].checks[t])
                       /\ \E j \in ValidAt(i) : is_match(rules[i].paths[j], path)}

DeclaredSpec(i, path) ==
    Max({LiteralSegments(rules[i].paths[j]) :
            j \in {k \in ValidAt(i) : is_match(rules[i].paths[k], path)}})

DeclaredWinner(path, t) ==
    LET c == DeclaredCandidates(path, t) IN
    IF c = {} THEN None
    ELSE LET best == Max({DeclaredSpec(i, path) : i \in c})
         IN rules[CHOOSE i \in c :
                     /\ DeclaredSpec(i, path) = best
                     /\ \A j \in c : DeclaredSpec(j, path) = best => i <= j].checks[t]

\* C15: compile always yields a rule set; a pattern that does not compile is
\* dropped and only that one; a rule with a compiling pattern is kept with all
\* its checks and its compiling patterns, in order; a rule with none is
\* dropped; the kept rules stay in declaration order, and resolve picks, among
\* them, the rule of greatest specificity, the earliest on a tie.
C15_InvalidPatternsAreDroppedAlone ==
    /\ Len(compiled) = Cardinality(Surviving)
    /\ \A i \in Surviving :
          LET c == compiled[RankIn(Surviving, i)] IN
          /\ c.checks = rules[i].checks
          /\ Len(c.matchers) = Cardinality(ValidAt(i))
          /\ \A j \in ValidAt(i) : c.matchers[RankIn(ValidAt(i), j)].glob = rules[i].paths[j]
    /\ IsSome(resolved) =>
          \A t \in CheckTypes :
              Unwrap(resolved).checks[t] = DeclaredWinner(Unwrap(resolved).path, t)

\* A rule whose patterns are all invalid was dropped, and a later rule that
\* lost its first pattern gave its settings through the remaining one.
C15_Witness ==
    /\ IsSome(resolved)
    /\ Len(rules) = 2
    /\ ValidAt(1) = {}
    /\ ValidAt(2) = {2}
    /\ Len(compiled) = 1
    /\ Unwrap(resolved).checks["analyze"] = Some(2)

---------------------------------------------------------------------------
\* Presence of a check type in the resolved settings.

\* Compiled rule i has a pattern that matches the path.
RuleMatches(i, path) ==
    \E j \in DOMAIN compiled[i].matchers : is_match(compiled[i].matchers[j].glob, path)

\* ResolvedChecks::is_empty
resolved_is_empty(checks) == \A t \in CheckTypes : IsNone(checks[t])

\* C16: a check type is present in resolve(path) exactly when some compiled
\* rule has a pattern matching the path and configures the type; with no
\* rules, or none matching, the result is empty; a rule with several
\* patterns applies when any one of them matches.
C16_PresentIffSomeMatchingRuleConfigures ==
    IsSome(resolved) =>
        LET p == Unwrap(resolved).path
            got == Unwrap(resolved).checks
        IN /\ \A t \in CheckTypes :
                 IsSome(got[t]) <=>
                     \E i \in DOMAIN compiled : RuleMatches(i, p) /\ IsSome(compiled[i].checks[t])
           /\ (\A i \in DOMAIN compiled : ~RuleMatches(i, p)) => resolved_is_empty(got)

\* A rule with two patterns applied through its second pattern alone.
C16_Witness ==
    /\ IsSome(resolved)
    /\ \E i \in DOMAIN compiled :
          /\ Len(compiled[i].matchers) = 2
          /\ ~is_match(compiled[i].matchers[1].glob, Unwrap(resolved).path)
          /\ is_match(compiled[i].matchers[2].glob, Unwrap(resolved).path)
          /\ Unwrap(resolved).checks["analyze"] = Some(i)

\* No rule matched the path and nothing was resolved for it.
C16_WitnessEmpty ==
    /\ IsSome(resolved)
    /\ compiled # <<>>
    /\ \A i \in DOMAIN compiled : ~RuleMatches(i, Unwrap(resolved).path)
    /\ resolved_is_empty(Unwrap(resolved).checks)

---------------------------------------------------------------------------
\* Directives for one check and the other checks.

\* The check names the directives of a document mention.
NamedChecks(doc) ==
    UNION {UNION {Range(doc[i][j].checks) : j \in DOMAIN doc[i]} : i \in DOMAIN doc}

\* The document with every directive removed, each line keeping its number.
WithoutDirectives(doc) == [i \in DOMAIN doc |-> Prose]

\* The settings of one check type alone.
OnlyType(res, y) == [t \in CheckTypes |-> IF t = y THEN res[t] ELSE None]

\* The sub-check that produces each part of an AnalysisReport.
AnalysisFieldCheck ==
    [readability |-> "readability", grammar |-> "grammar", sticky_sentences |-> "sticky",
     pacing |-> "pacing", sentence_length |-> "sentence_length",
     transitions |-> "transitions", overused_words |-> "overused",
     repeated_phrases |-> "repeated", echoes |-> "echoes", sensory |-> "sensory",
     diction |-> "diction", cliches |-> "cliches", consistency |-> "consistency",
     acronyms |-> "acronyms", jargon |-> "jargon",
     complex_paragraphs |-> "complex_paragraphs",
     conjunction_starts |-> "conjunction_starts", style |-> "style"]

StandaloneTypes == CheckTypes \ {"analyze"}

\* Every name a directive can be looked up under.
LookupNames == CheckTypes \cup Range(ALL_CHECKS) \cup {"sticky_sentences"}

\* A check named by no directive is suppressed nowhere.
UnnamedNeverSuppressed(named) ==
    \A y \in LookupNames \ named :
        /\ ~is_fully_suppressed(Sup, y)
        /\ \A n \in QueryLines : ~is_suppressed(Sup, y, n)

\* A configured standalone check named by no directive runs and returns the
\* sub-report it returns for the document without directives.
StandaloneUnaffected(named, y) ==
    LET plain == run_lint(WithoutDirectives(content), OnlyType(lintResolved, y), config, ext)
    IN IF plain.ok
       THEN Unwrap(outcome).ok =>
               /\ y \in Range(ran)
               /\ Report[y] = plain.val[y]
       ELSE ~Unwrap(outcome).ok

\* The analyze settings ask for the sub-check.
Requested(check) ==
    LET r == resolve_analyze_checks(Unwrap(lintResolved.analyze)) IN
    r.ok /\ (IsNone(r.val) \/ check \in Range(Unwrap(r.val)))

\* A requested sub-check of analyze named by no directive runs and returns
\* the sub-report it returns for the document without directives.
SubCheckUnaffected(f) ==
    LET plain == run_lint(WithoutDirectives(content), OnlyType(lintResolved, "analyze"),
                          config, ext)
    IN Requested(AnalysisFieldCheck[f]) =>
          IF plain.ok
          THEN Unwrap(outcome).ok =>
                  /\ "analyze" \in Range(ran)
                  /\ IsSome(Report.analyze)
                  /\ Unwrap(Report.analyze)[f] = Unwrap(plain.val.analyze)[f]
          ELSE ~Unwrap(outcome).ok

\* C17: directives that name only check X leave every other check Y alone:
\* Y is suppressed on no line and not fully suppressed, and run_lint runs a
\* configured Y and returns the sub-report, with all its findings, that it
\* returns for the same document without the directives.
C17_OtherChecksUnaffected ==
    LintDone =>
        LET named == NamedChecks(content) IN
        /\ UnnamedNeverSuppressed(named)
        /\ \A y \in StandaloneTypes \ named :
              IsSome(lintResolved[y]) => StandaloneUnaffected(named, y)
        /\ IsSome(lintResolved.analyze) =>
              \A f \in DOMAIN AnalysisFieldCheck :
                  AnalysisFieldCheck[f] \notin named => SubCheckUnaffected(f)

(***************************************************************************)
(*                     text.rs : sentence splitting                        *)
(*                                                                         *)
(* A text is the sequence of its characters, each a one-character string.  *)
(***************************************************************************)

\* The characters of the bounded texts: two lowercase letters ("m" is an
\* entry of the abbreviation dictionary, "x" is not), an uppercase letter, a
\* lowercase letter encoded in two bytes, a space and two terminators.
Alphabet == {"x", "m", "Q", "é", " ", ".", "!"}

\* char::is_whitespace, is_uppercase, is_lowercase, is_alphanumeric, is_ascii_digit
IsWhitespace(c) == c \in {" ", "\t", "\n"}
IsUppercase(c) == c \in {"Q"}
IsLowercase(c) == c \in {"x", "m", "é"}
IsAlphanumeric(c) == IsUppercase(c) \/ IsLowercase(c) \/ c \in {"0", "1", "2", "3", "4", "5", "6", "7", "8", "9"}
IsAsciiDigit(c) == c \in {"0", "1", "2", "3", "4", "5", "6", "7", "8", "9"}

\* char::to_lowercase
ToLower(c) == IF c = "Q" THEN "q" ELSE c

\* char::len_utf8
len_utf8(c) == IF c = "é" THEN 2 ELSE 1

\* str::len: the length in bytes.
RECURSIVE ByteLen(_)
ByteLen(s) == IF s = <<>> THEN 0 ELSE len_utf8(Head(s)) + ByteLen(Tail(s))

\* str::chars().count()
CharLen(s) == Len(s)

\* str::trim
RECURSIVE TrimStart(_)
TrimStart(s) == IF s # <<>> /\ IsWhitespace(Head(s)) THEN TrimStart(Tail(s)) ELSE s

RECURSIVE TrimEnd(_)
TrimEnd(s) ==
    IF s # <<>> /\ IsWhitespace(s[Len(s)]) THEN TrimEnd(SubSeq(s, 1, Len(s) - 1)) ELSE s

Trim(s) == TrimEnd(TrimStart(s))

\* str::trim_end_matches('.') and trim_matches('.')
RECURSIVE TrimEndDots(_)
TrimEndDots(s) ==
    IF s # <<>> /\ s[Len(s)] = "." THEN TrimEndDots(SubSeq(s, 1, Len(s) - 1)) ELSE s

RECURSIVE TrimStartDots(_)
TrimStartDots(s) == IF s # <<>> /\ Head(s) = "." THEN TrimStartDots(Tail(s)) ELSE s

\* The entries of ABBREVIATIONS that can be written with the alphabet.
ABBREVIATIONS == { <<"m">>, <<"m", "m">> }

\* dictionaries::abbreviations::is_abbreviation
is_abbreviation(word) ==
    LET word_lower == [i \in DOMAIN word |-> ToLower(word[i])]
    IN TrimEndDots(TrimStartDots(word_lower)) \in ABBREVIATIONS

is_sentence_terminator(ch) == ch \in {".", "!", "?"}

\* get_word_before, first loop: from the 0-based index i back to the nearest
\* character that is neither whitespace nor '.', or to index 0.
RECURSIVE SkipBack(_, _)
SkipBack(chars, i) ==
    IF i = 0 THEN 0
    ELSE LET c == chars[i] IN      \* chars[i - 1] of the 0-based source
         IF ~IsWhitespace(c) /\ c # "." THEN i - 1 ELSE SkipBack(chars, i - 1)

\* get_word_before, second loop: the alphanumerics and '.' ending at the
\* 0-based index i.
RECURSIVE CollectWord(_, _)
CollectWord(chars, i) ==
    LET c == chars[i + 1] IN
    IF IsAlphanumeric(c) \/ c = "."
    THEN (IF i = 0 THEN <<>> ELSE CollectWord(chars, i - 1)) \o <<c>>
    ELSE <<>>

get_word_before(chars, p) == CollectWord(chars, SkipBack(chars, p))

\* The first 0-based index at or after i that holds no whitespace.
RECURSIVE SkipWhitespace(_, _)
SkipWhitespace(chars, i) ==
    IF i < Len(chars) /\ IsWhitespace(chars[i + 1]) THEN SkipWhitespace(chars, i + 1) ELSE i

\* The length of SentenceContext::text_after.
TextAfterLen == 20

\* extract_context, for the terminator at the 0-based index p.
extract_context(chars, p) ==
    LET after_start == SkipWhitespace(chars, p + 1)
    IN [punctuation |-> chars[p + 1],
        word_before |-> get_word_before(chars, p),
        char_after |-> IF after_start < Len(chars) THEN Some(chars[after_start + 1]) ELSE None,
        text_after |-> SubSeq(chars, after_start + 1,
                              IF Len(chars) < after_start + TextAfterLen
                              THEN Len(chars) ELSE after_start + TextAfterLen),
        is_end_of_text |-> p = Len(chars) - 1]

check_next_char_capitalization(context) ==
    IF IsSome(context.char_after) /\ IsUppercase(Unwrap(context.char_after)) THEN TRUE
    ELSE IF IsSome(context.char_after) /\ Unwrap(context.char_after) \in {"\"", "'"}
    THEN Len(context.text_after) >= 2 /\ IsUppercase(context.text_after[2])
    ELSE TRUE

is_likely_abbreviation(word) ==
    IF word = <<>> THEN FALSE
    ELSE LET word_clean == TrimEndDots(word) IN
         \/ is_abbreviation(word_clean)
         \/ ByteLen(word_clean) = 1 /\ IsUppercase(word_clean[1])

\* INITIALS_PATTERN, \b[A-Z]\.(?:[A-Z]\.)* : an uppercase ASCII letter at a
\* word boundary, followed by a period.
INITIALS_PATTERN_is_match(word) ==
    \E k \in DOMAIN word :
        /\ IsUppercase(word[k])
        /\ k = 1 \/ ~IsAlphanumeric(word[k - 1])
        /\ k + 1 \in DOMAIN word
        /\ word[k + 1] = "."

is_likely_initial(word) ==
    IF word = <<>> THEN FALSE
    ELSE \/ ByteLen(word) = 2 /\ IsUppercase(word[1]) /\ word[Len(word)] = "."
         \/ INITIALS_PATTERN_is_match(word)

\* The last n characters of a string.
LastChars(s, n) == IF Len(s) <= n THEN s ELSE SubSeq(s, Len(s) - n + 1, Len(s))

\* DECIMAL_PATTERN, \d+\.\d+ , on the last 10 characters.
is_decimal_number(sentence) ==
    LET last_part == LastChars(sentence, 10) IN
    \E k \in DOMAIN last_part :
        /\ IsAsciiDigit(last_part[k])
        /\ k + 2 \in DOMAIN last_part
        /\ last_part[k + 1] = "."
        /\ IsAsciiDigit(last_part[k + 2])

\* URL_PATTERN needs "http://", "https://" or "www." and EMAIL_PATTERN needs
\* '@'; the characters of Alphabet form none of them, so neither matches.
contains_url_or_email(sentence) ==
    LET last_part == LastChars(sentence, 50) IN
    \E k \in DOMAIN last_part : last_part[k] \in {"@", "w", "h"} \ Alphabet

EndsWithDots(s) == Len(s) >= 3 /\ SubSeq(s, Len(s) - 2, Len(s)) = <<".", ".", ".">>

is_sentence_boundary(context, current_sentence) ==
    IF context.is_end_of_text THEN TRUE
    ELSE IF context.punctuation = "!" \/ context.punctuation = "?"
    THEN check_next_char_capitalization(context)
    ELSE IF is_likely_abbreviation(context.word_before) THEN FALSE
    ELSE IF is_likely_initial(context.word_before) THEN FALSE
    ELSE IF is_decimal_number(current_sentence) THEN FALSE
    ELSE IF EndsWithDots(current_sentence) THEN FALSE
    ELSE IF contains_url_or_email(current_sentence) THEN FALSE
    ELSE IF /\ IsSome(context.char_after)
            /\ IsAsciiDigit(Unwrap(context.char_after))
            /\ context.word_before # <<>>
            /\ IsAsciiDigit(context.word_before[Len(context.word_before)])
    THEN FALSE
    ELSE IF IsSome(context.char_after) /\ IsUppercase(Unwrap(context.char_after)) THEN TRUE
    ELSE IF IsSome(context.char_after) /\ IsLowercase(Unwrap(context.char_after)) THEN FALSE
    ELSE TRUE

\* `let min_length = 3`
min_length == 3

\* `sentence.len() >= min_length`
LongEnough(sentence) == ByteLen(sentence) >= min_length

\* A variant that puts the sentence in front of the earlier ones.
PushFirstIfLong(acc, cur) ==
    LET sentence == Trim(cur) IN IF LongEnough(sentence) THEN <<sentence>> \o acc ELSE acc

\* `if sentence.len() >= min_length { sentences.push(sentence) }`
PushIfLong(acc, cur) ==
    LET sentence == Trim(cur) IN IF LongEnough(sentence) THEN Append(acc, sentence) ELSE acc

---------------------------------------------------------------------------
\* Bounded inputs of the sentence-splitting specification.

MaxText == 4

InitText ==
    /\ IdleRules
    /\ IdleDir
    /\ IdleLint
    /\ IdleMap
    /\ \E n \in 0..MaxText : text \in [1..n -> Alphabet]
    /\ sentences = <<>>
    /\ current = <<>>
    /\ pos = 0
    /\ pcT = "start"

\* `if text.trim().is_empty() { return Vec::new(); }`
SplitStart ==
    /\ pcT = "start"
    /\ pcT' = IF Trim(text) = <<>> THEN "done" ELSE "scan"
    /\ UNCHANGED <<text, sentences, current, pos>>
    /\ UNCHANGED <<varsRules, varsDir, varsLint, varsMap>>

\* One iteration of `while i < chars.len()`.
SplitScan ==
    /\ pcT = "scan"
    /\ pos < Len(text)
    /\ LET ch == text[pos + 1]
           cur == Append(current, ch)
           boundary == /\ is_sentence_terminator(ch)
                       /\ is_sentence_boundary(extract_context(text, pos), cur)
       IN IF boundary
          THEN /\ sentences' = PushIfLong(sentences, cur)
               /\ current' = <<>>
          ELSE /\ current' = cur
               /\ UNCHANGED sentences
    /\ pos' = pos + 1
    /\ UNCHANGED <<text, pcT>>
    /\ UNCHANGED <<varsRules, varsDir, varsLint, varsMap>>

\* After the loop: the remaining text, then the return.
SplitFinish ==
    /\ pcT = "scan"
    /\ pos = Len(text)
    /\ sentences' = PushIfLong(sentences, current)
    /\ pcT' = "done"
    /\ UNCHANGED <<text, current, pos>>
    /\ UNCHANGED <<varsRules, varsDir, varsLint, varsMap>>

NextText == SplitStart \/ SplitScan \/ SplitFinish

SpecText == InitText /\ [][NextText]_vars

\* C18: every string split_sentences returns has a trimmed length of at
\* least 3 characters, shorter completed segments being discarded, and an
\* empty or whitespace-only text returns no sentence.
C18_ReturnedSentencesHaveThreeCharacters ==
    pcT = "done" =>
        /\ \A k \in DOMAIN sentences : CharLen(Trim(sentences[k])) >= 3
        /\ Trim(text) = <<>> => sentences = <<>>

---------------------------------------------------------------------------
\* Fully suppressed sub-checks of analyze.

\* The sub-checks the analyze settings ask for.
RequestedSubChecks == {c \in Range(ALL_CHECKS) : Requested(c)}

FullySuppressedSubChecks == {c \in Range(ALL_CHECKS) : is_fully_suppressed(Sup, c)}

\* C19: when analyze is configured, no fully suppressed sub-check is
\* executed, whether the rule lists checks, excludes checks or does neither,
\* so the analyze report holds no sub-report of such a sub-check; when every
\* sub-check it would run is fully suppressed, analyze does not run at all.
C19_FullySuppressedSubChecksNotRun ==
    LintDone /\ IsSome(lintResolved.analyze)
             /\ resolve_analyze_checks(Unwrap(lintResolved.analyze)).ok =>
        /\ RequestedSubChecks \subseteq FullySuppressedSubChecks =>
              /\ "analyze" \notin Range(ran)
              /\ Returned => IsNone(Report.analyze)
        /\ Returned /\ IsSome(Report.analyze) =>
              \A f \in DOMAIN AnalysisFieldCheck :
                  AnalysisFieldCheck[f] \in FullySuppressedSubChecks =>
                      IsNone(Unwrap(Report.analyze)[f])

---------------------------------------------------------------------------
\* The verdict and the findings on suppressed lines.

\* The findings `tags` that lie on lines where `check` is not suppressed.
KeepUnsuppressed(tags, check, line_map) ==
    Retain(tags, {n \in Range(tags) : ~is_suppressed(Sup, check, LineOf(line_map, n))})

\* The document of the run with every finding on a line where its check is
\* suppressed taken away: same text size, same sentence and paragraph counts,
\* same unsuppressed findings.
WithoutSuppressedFindings(e) ==
    [e EXCEPT !.issues = KeepUnsuppressed(@, "grammar", e.sentence_map),
              !.passive_voice = KeepUnsuppressed(@, "grammar", e.sentence_map),
              !.sticky = KeepUnsuppressed(@, "sticky", e.sentence_map),
              !.very_long = KeepUnsuppressed(@, "sentence_length", e.sentence_map),
              !.complex = KeepUnsuppressed(@, "complex_paragraphs", e.paragraph_map),
              !.echoes = KeepUnsuppressed(@, "echoes", e.paragraph_map)]

\* The threshold flag of an optional sub-report, None when it is absent.
FlagOf(rep, flag) == IF IsSome(rep) THEN Some(Unwrap(rep)[flag]) ELSE None

\* pass and every threshold flag of a returned report.
Verdict(rep) ==
    [pass |-> rep.pass,
     readability |-> FlagOf(rep.readability, "over_max"),
     grammar |-> FlagOf(rep.grammar, "over_max"),
     completeness |-> FlagOf(rep.completeness, "pass"),
     tokens |-> FlagOf(rep.tokens, "over_budget"),
     analyze_readability |->
         IF IsSome(rep.analyze) THEN FlagOf(Unwrap(rep.analyze).readability, "over_max")
         ELSE None,
     analyze_grammar |->
         IF IsSome(rep.analyze) THEN FlagOf(Unwrap(rep.analyze).grammar, "over_max")
         ELSE None]

\* C20: the verdict depends on unsuppressed findings only: a run returns the
\* pass and the threshold flags of the run on the same document without its
\* findings on suppressed lines, the style score compared with style_min
\* included.
C20_VerdictIgnoresSuppressedFindings ==
    Returned =>
        LET other == run_lint(content, lintResolved, config, WithoutSuppressedFindings(ext))
        IN other.ok /\ Verdict(other.val) = Verdict(Report)

---------------------------------------------------------------------------
\* A disable repeated while it is open.

\* The directives for a check are a disable, a second disable on a later
\* line and an enable.
IsRepeatedDisable(ev) ==
    /\ Len(ev) = 3
    /\ ev[1].action = "disable"
    /\ ev[2].action = "disable"
    /\ ev[3].action = "enable"
    /\ ev[1].line < ev[2].line

\* C21: a second disable of a check met while the check is open overwrites
\* the recorded start line: for a disable on line a, a disable on a later
\* line a' and an enable on line b, the one stored range is (a', b), and the
\* check is suppressed exactly on the lines a' to b, not on a to a' - 1.
C21_SecondDisableOverwritesStart ==
    pcD = "done" =>
        \A x \in DirChecks :
            LET ev == AllEvents(input, x) IN
            IsRepeatedDisable(ev) =>
                /\ map[x] = << <<ev[2].line, ev[3].line>> >>
                /\ \A n \in QueryLines :
                      is_suppressed(map, x, n) <=> (ev[2].line <= n /\ n <= ev[3].line)
                /\ \A n \in ev[1].line..(ev[2].line - 1) : ~is_suppressed(map, x, n)

\* Two disables of one check on lines 1 and 3 closed by an enable on line 4:
\* lines 1 and 2 are not suppressed.
C21_Witness ==
    /\ pcD = "done"
    /\ \E x \in DirChecks :
          LET ev == AllEvents(input, x) IN
          /\ IsRepeatedDisable(ev)
          /\ ev[1].line = 1 /\ ev[2].line = 3 /\ ev[3].line = 4
          /\ ~is_suppressed(map, x, 1)
          /\ ~is_suppressed(map, x, 2)
          /\ is_suppressed(map, x, 3)
          /\ is_suppressed(map, x, 4)

---------------------------------------------------------------------------
\* The lifecycle of a check: skipped, or run, filtered when a suppression
\* exists, and final.

\* Some check is suppressed on some line, by the map run_lint parsed.
SomeSuppression ==
    \E c \in DOMAIN suppressions : \E n \in QueryLines : is_suppressed(suppressions, c, n)

\* What the check of type y returns for the document.
RawReport(y) ==
    CASE y = "analyze" ->
             LET ac == Unwrap(lintResolved.analyze) IN
             run_full_analysis(ext, RetainChecks(resolve_analyze_checks(ac).val, suppressions),
                               OrElse(ac.max_grade, config.max_grade),
                               OrElse(ac.passive_max, config.passive_max_percent)).val
      [] y = "readability" ->
             check_readability(ext, OrElse(Unwrap(lintResolved.readability).max_grade,
                                           config.max_grade)).val
      [] y = "grammar" ->
             check_grammar_full(ext, OrElse(Unwrap(lintResolved.grammar).passive_max,
                                            config.passive_max_percent)).val
      [] y = "completeness" -> check_completeness(ext).val
      [] y = "tokens" ->
             LET tc == Unwrap(lintResolved.tokens) IN
             count_tokens(ext, tc.budget,
                          UnwrapOrDefaultBackend(OrElse(tc.tokenizer, config.tokenizer))).val

\* The report of type y after the suppression filter; readability,
\* completeness and tokens carry no located finding.
FilteredReport(y, raw) ==
    CASE y = "analyze" -> filter_analysis_report(raw, ext, suppressions)
      [] y = "grammar" -> FilterGrammar(raw, suppressions, ext.sentence_map, raw.passive_max)
      [] OTHER -> raw

\* The check of type y ran and raised the error the call returned.
FailedIn(y) ==
    /\ LintDone
    /\ ~Unwrap(outcome).ok
    /\ ran[Len(ran)] = y

\* C22: a check that did not run leaves no sub-report; a check that ran
\* leaves, from then on, the report it returned, passed through the
\* suppression filter exactly when some suppression exists in the document;
\* without any, findings and aggregates are what the check returned.
C22_FilteredIffSomeSuppression ==
    \A y \in CheckTypes :
        IF y \in Range(ran)
        THEN \/ FailedIn(y) /\ IsNone(reports[y])
             \/ /\ IsSome(reports[y])
                /\ Unwrap(reports[y]) =
                      IF SomeSuppression THEN FilteredReport(y, RawReport(y))
                      ELSE RawReport(y)
        ELSE IsNone(reports[y])

\* A filtered grammar report differs from what the check returned, and a
\* later block has run since.
C22_Witness ==
    /\ pcL = "done"
    /\ Unwrap(outcome).ok
    /\ SomeSuppression
    /\ {"analyze", "grammar"} \subseteq Range(ran)
    /\ Unwrap(reports["grammar"]) # RawReport("grammar")
    /\ Unwrap(reports["analyze"]) # RawReport("analyze")

\* A document without directives: the reports are those the checks returned.
C22_WitnessPlain ==
    /\ pcL = "done"
    /\ Unwrap(outcome).ok
    /\ ~SomeSuppression
    /\ "analyze" \in Range(ran)
    /\ Unwrap(reports["analyze"]) = RawReport("analyze")
    /\ IsSome(Unwrap(reports["analyze"]).grammar)
    /\ Unwrap(Unwrap(reports["analyze"]).grammar).passive_voice # <<>>

---------------------------------------------------------------------------
\* Rules whose settings have optional fields.

FieldPathLists == { <<PatAnyMd>>, <<PatDocsTree>>, <<PatDecisions>> }

\* AnalyzeRuleConfig with max_grade and passive_max set or unset.
FieldAnalyzeSettings ==
    { AnalyzeCfg(None, None, mg, pm, None) : mg \in {None, Some(8)}, pm \in {None, Some(15)} }

\* ReadabilityRuleConfig with max_grade set.
FieldReadabilitySettings == { [max_grade |-> Some(12)] }

\* RuleChecks configuring analyze, readability, both or neither.
FieldRuleChecks ==
    { [t \in CheckTypes |-> IF t = "analyze" THEN a ELSE IF t = "readability" THEN r ELSE None] :
        a \in {None} \cup {Some(x) : x \in FieldAnalyzeSettings},
        r \in {None} \cup {Some(x) : x \in FieldReadabilitySettings} }

InitFields ==
    /\ IdleDir
    /\ IdleLint
    /\ IdleMap
    /\ IdleText
    /\ \E n \in 0..MaxRules :
          \E ps \in [1..n -> FieldPathLists], cs \in [1..n -> FieldRuleChecks] :
              rules = [i \in 1..n |-> [paths |-> ps[i], checks |-> cs[i]]]
    /\ compiled = compile(rules)
    /\ resolved = None

SpecFields == InitFields /\ [][NextRules]_vars

\* The compiled rule whose settings win check type t for the path: greatest
\* specificity among the candidates, the earliest on a tie.
WinnerIndex(crs, path, t) ==
    LET c == Candidates(crs, path, t)
        best == Max({CandSpec(crs, path, i) : i \in c})
    IN CHOOSE i \in c :
          /\ CandSpec(crs, path, i) = best
          /\ \A j \in c : CandSpec(crs, path, j) = best => i <= j

\* C23: the settings resolved for a check type are those of its one winning
\* rule, whole: a field the winning rule leaves unset is unset in the
\* result, even when another matching rule sets it.
C23_SettingsTakenWholeFromWinner ==
    IsSome(resolved) =>
        LET p == Unwrap(resolved).path
            got == Unwrap(resolved).checks
        IN \A t \in CheckTypes :
              Candidates(compiled, p, t) # {} =>
                  LET won == Unwrap(compiled[WinnerIndex(compiled, p, t)].checks[t]) IN
                  /\ IsSome(got[t])
                  /\ Unwrap(got[t]) = won
                  /\ \A f \in DOMAIN won : IsNone(won[f]) => IsNone(Unwrap(got[t])[f])

\* A general rule sets max_grade for analyze, a more specific rule
\* configures analyze without it: the resolved max_grade is unset.
C23_Witness ==
    /\ IsSome(resolved)
    /\ Len(compiled) = 2
    /\ Candidates(compiled, Unwrap(resolved).path, "analyze") = {1, 2}
    /\ WinnerIndex(compiled, Unwrap(resolved).path, "analyze") = 2
    /\ IsSome(Unwrap(compiled[1].checks["analyze"]).max_grade)
    /\ IsNone(Unwrap(compiled[2].checks["analyze"]).max_grade)
    /\ IsSome(Unwrap(compiled[2].checks["analyze"]).passive_max)
    /\ IsNone(Unwrap(Unwrap(resolved).checks["analyze"]).max_grade)

---------------------------------------------------------------------------
\* The specificity a rule competes with.

\* The patterns of compiled rule i that match the path.
MatchingPatterns(i, path) ==
    {j \in DOMAIN compiled[i].matchers : is_match(compiled[i].matchers[j].glob, path)}

\* The greatest number of literal segments among the matching patterns.
Credit(i, path) ==
    Max({LiteralSegments(compiled[i].matchers[j].glob) : j \in MatchingPatterns(i, path)})

\* The rules that match the path and configure check type t.
Competitors(path, t) ==
    {i \in DOMAIN compiled : MatchingPatterns(i, path) # {} /\ IsSome(compiled[i].checks[t])}

\* The earliest competitor of greatest credit.
CreditWinner(path, t) ==
    LET c == Competitors(path, t) IN
    CHOOSE i \in c : \A j \in c :
        \/ Credit(j, path) < Credit(i, path)
        \/ Credit(j, path) = Credit(i, path) /\ i <= j

\* C24: a rule competes for a path with the greatest specificity among its
\* patterns that match the path; a pattern of the rule that does not match
\* never raises it, so the settings resolved are those of the earliest rule
\* of greatest such specificity.
C24_CreditIsMaxOverMatchingPatterns ==
    IsSome(resolved) =>
        LET p == Unwrap(resolved).path
            got == Unwrap(resolved).checks
        IN /\ \A i \in DOMAIN compiled :
                 MatchingPatterns(i, p) # {} => MaxSpec(compiled[i], p) = Some(Credit(i, p))
           /\ \A t \in CheckTypes :
                 Competitors(p, t) # {} => got[t] = compiled[CreditWinner(p, t)].checks[t]

\* A rule listing "docs/decisions/*.md" and "**/*.md" matches the path through
\* the second pattern only, competes with specificity 0 and loses to a rule
\* of specificity 1.
C24_Witness ==
    /\ IsSome(resolved)
    /\ Len(compiled) = 2
    /\ \E i, k \in {1, 2} :
          /\ i # k
          /\ Len(compiled[i].matchers) = 2
          /\ compiled[i].matchers[1].spec = 2
          /\ MatchingPatterns(i, Unwrap(resolved).path) = {2}
          /\ Credit(i, Unwrap(resolved).path) = 0
          /\ MatchingPatterns(k, Unwrap(resolved).path) # {}
          /\ Credit(k, Unwrap(resolved).path) = 1
          /\ IsSome(compiled[i].checks["analyze"])
          /\ Unwrap(resolved).checks["analyze"] = compiled[k].checks["analyze"]
          /\ compiled[i].checks["analyze"] # compiled[k].checks["analyze"]

---------------------------------------------------------------------------
\* An enable without an open disable.

IsEnableOnly(line, x) == line = <<Dir("enable", <<x>>)>>

\* Check x is not open when line i is read.
NotOpenBefore(doc, i, x) == ~HasKey(ParseLines(doc, i - 1).open, x)

\* Every directive of the document is an enable.
OnlyEnables(doc) ==
    \A i \in DOMAIN doc : \A j \in DOMAIN doc[i] : doc[i][j].action = "enable"

\* C25: an enable of a check met while no disable of it is open changes
\* nothing: the ranges, the entries and the open disables are those of the
\* document without it; a document whose only directives are enables gives
\* an empty map, and the map is empty exactly when no check is suppressed on
\* any line.
C25_EnableWithoutDisableIsNoOp ==
    pcD \in {"reading", "done"} =>
        /\ \A i \in DOMAIN input : \A x \in DirChecks :
              IsEnableOnly(input[i], x) /\ NotOpenBefore(input, i, x) =>
                  Current = Reference(WithoutLine(input, i))
        /\ pcD = "done" /\ OnlyEnables(input) => is_empty(map)
        /\ pcD = "done" =>
              (is_empty(map) <=>
                  \A x \in DirChecks : \A n \in QueryLines : ~is_suppressed(map, x, n))

\* A document with directives, all of them enables, returned an empty map.
C25_Witness ==
    /\ pcD = "done"
    /\ \E i \in DOMAIN input : input[i] # <<>>
    /\ \E i \in DOMAIN input : \E x \in DirChecks :
          IsEnableOnly(input[i], x) /\ NotOpenBefore(input, i, x)
    /\ OnlyEnables(input)
    /\ is_empty(map)

\* A stray enable of a check ahead of a region of the same check leaves the
\* region as it is.
C25_WitnessRegion ==
    /\ pcD = "done"
    /\ Len(input) >= 3
    /\ \E x \in DirChecks :
          /\ IsEnableOnly(input[1], x)
          /\ HasKey(map, x)
          /\ map[x] = << <<2, 3>> >>

---------------------------------------------------------------------------
\* The whole-document sentinel.

\* Some directive of the check stored a range: a disable-next-line, or an
\* enable preceded by a disable with no enable in between.
InRange(ev) ==
    \E i \in DOMAIN ev :
        \/ ev[i].action = "disable-next-line"
        \/ /\ ev[i].action = "enable"
           /\ \E j \in 1..(i - 1) :
                 /\ ev[j].action = "disable"
                 /\ \A k \in (j + 1)..(i - 1) : ev[k].action # "enable"

\* C26: in the returned map the entry of a check has an empty range list
\* exactly when a disable of the check was still open at the end of the
\* input; closed regions and disable-next-line directives store at least one
\* range, so during the scan no entry is empty, and is_fully_suppressed holds
\* exactly when the last disable of the check has no later enable.
C26_EmptyEntryIffDisableOpenAtEnd ==
    /\ pcD = "reading" => \A x \in DOMAIN map : map[x] # <<>>
    /\ pcD = "done" =>
          \A x \in DirChecks :
              LET ev == AllEvents(input, x) IN
              /\ (HasKey(map, x) /\ map[x] = <<>>) <=> OpenAtEnd(ev)
              /\ is_fully_suppressed(map, x) <=> OpenAtEnd(ev)
              /\ HasKey(map, x) <=> ev # <<>> /\ (OpenAtEnd(ev) \/ InRange(ev))

\* One check has a closed region and a next-line range and is not fully
\* suppressed; another has a disable open at the end and is.
C26_Witness ==
    /\ pcD = "done"
    /\ \E x, y \in DirChecks :
          /\ x # y
          /\ HasKey(map, x)
          /\ Len(map[x]) >= 2
          /\ ~is_fully_suppressed(map, x)
          /\ OpenAtEnd(AllEvents(input, y))
          /\ is_fully_suppressed(map, y)

---------------------------------------------------------------------------
\* Documents whose line maps are shorter than the numbering of the findings.

\* A document with n sentences and a sentence line map of n - 1 entries; its
\* findings are passive voice in the sentences F1, every other sentence
\* finding in the sentences F2, and every paragraph finding in the
\* paragraphs in which a sentence of F2 starts, the last sentence standing
\* for a paragraph past the end of the paragraph line map.
ShortMapExt(n, smap, F1, F2) ==
    LET pmap == ParagraphStarts(smap)
        G == {p \in DOMAIN pmap : \E i \in F2 \cap DOMAIN smap : smap[i] = pmap[p]}
             \cup (IF n \in F2 THEN {Len(pmap) + 1} ELSE {})
    IN [prose_empty |-> FALSE, sentence_count |-> n, paragraph_count |-> Len(pmap) + 1,
        grade |-> 2, issues |-> Sorted(F2), passive_voice |-> Sorted(F1),
        sticky |-> Sorted(F2), very_long |-> Sorted(F2),
        complex |-> Sorted(G), echoes |-> Sorted(G),
        style_other_halves |-> 0, completeness |-> "pass",
        token_count |-> [claude |-> 10, openai |-> 100],
        sentence_map |-> smap, paragraph_map |-> pmap]

ShortMapExts(doc) ==
    UNION { { ShortMapExt(n, smap, F1, F2) : smap \in LineMaps(doc, n - 1),
                                              F1 \in SUBSET (1..n), F2 \in SUBSET (1..n) }
            : n \in 1..MaxSent }

\* Documents with a region, a disabled line, or an unclosed disable.
ShortMapDocs ==
    FilterDocs
    \cup { << <<Dir("disable", <<c>>)>>, Prose, Prose, Prose, Prose >>
            : c \in {"grammar", "echoes", "sticky", "sticky_sentences"} }

ShortMapResolved ==
    { Resolved(Some(AnalyzeCfg(None, None, None, None, None)), None, None, None, None),
      Resolved(Some(AnalyzeCfg(Some(<<"grammar", "sticky", "echoes">>), None, None, None, None)),
               None, None, None, None),
      Resolved(None, None, Some([passive_max |-> None]), None, None) }

InitShortMap ==
    /\ IdleRules
    /\ IdleDir
    /\ IdleMap
    /\ IdleText
    /\ content \in ShortMapDocs
    /\ lintResolved \in ShortMapResolved
    /\ config = Defaults(None, None, None)
    /\ ext \in ShortMapExts(content)
    /\ pcL = "start"
    /\ suppressions = <<>>
    /\ pass = EmptyRun.pass
    /\ reports = EmptyRun.reports
    /\ ran = EmptyRun.ran
    /\ outcome = None

SpecShortMap == InitShortMap /\ [][NextLint]_vars

\* The findings of `raw` numbered past the end of the line map.
PastMap(raw, line_map) == {n \in Range(raw) : n > Len(line_map)}

\* The findings past the end of the line map are all retained unless the
\* check is fully suppressed.
PastMapKept(found, raw, check, line_map) ==
    ~is_fully_suppressed(suppressions, check) =>
        PastMap(raw, line_map) \subseteq Range(found)

\* C27: every stored range has 1 <= start <= end, so line 0 lies in no
\* range; a finding numbered past the end of its line map resolves to line 0
\* and is dropped by no region or next-line suppression, only when its check
\* is suppressed for the whole document.
C27_FindingsPastMapOnlyDroppedByFileLevel ==
    /\ \A c \in DOMAIN suppressions : \A k \in DOMAIN suppressions[c] :
          1 <= suppressions[c][k][1] /\ suppressions[c][k][1] <= suppressions[c][k][2]
    /\ \A c \in DOMAIN suppressions :
          is_suppressed(suppressions, c, 0) <=> is_fully_suppressed(suppressions, c)
    /\ \A n \in PastMap(ext.issues, ext.sentence_map) :
          LineOf(ext.sentence_map, n) = 0
    /\ Returned =>
          /\ IsSome(Report.grammar) =>
                /\ PastMapKept(Unwrap(Report.grammar).issues, ext.issues,
                               "grammar", ext.sentence_map)
                /\ PastMapKept(Unwrap(Report.grammar).passive_voice, ext.passive_voice,
                               "grammar", ext.sentence_map)
          /\ IsSome(Report.analyze) =>
                LET a == Unwrap(Report.analyze) IN
                /\ IsSome(a.grammar) =>
                      /\ PastMapKept(Unwrap(a.grammar).issues, ext.issues,
                                     SubCheckName.grammar, ext.sentence_map)
                      /\ PastMapKept(Unwrap(a.grammar).passive_voice, ext.passive_voice,
                                     SubCheckName.grammar, ext.sentence_map)
                /\ IsSome(a.sticky_sentences) =>
                      PastMapKept(Unwrap(a.sticky_sentences).sticky_sentences, ext.sticky,
                                  SubCheckName.sticky_sentences, ext.sentence_map)
                /\ IsSome(a.sentence_length) =>
                      PastMapKept(Unwrap(a.sentence_length).very_long, ext.very_long,
                                  SubCheckName.sentence_length, ext.sentence_map)
                /\ IsSome(a.complex_paragraphs) =>
                      PastMapKept(Unwrap(a.complex_paragraphs).complex_paragraphs,
                                  ext.complex, SubCheckName.complex_paragraphs,
                                  ext.paragraph_map)
                /\ IsSome(a.echoes) =>
                      PastMapKept(Unwrap(a.echoes).echoes, ext.echoes,
                                  SubCheckName.echoes, ext.paragraph_map)

\* The findings of `raw` on lines where `check` is suppressed are absent from
\* `found`, and every finding of `raw` absent from `found` is on a line where
\* some member of ALL_CHECKS is suppressed.
FilteredUnderOwnName(found, raw, check, line_map) ==
    /\ check \in Range(ALL_CHECKS)
    /\ \A n \in Range(raw) :
          /\ is_suppressed(suppressions, check, LineOf(line_map, n)) => n \notin Range(found)
          /\ n \notin Range(found) =>
                \E c \in Range(ALL_CHECKS) :
                    is_suppressed(suppressions, c, LineOf(line_map, n))

\* C28: region filtering tests each analyze sub-report (grammar, sticky
\* sentences, sentence length, complex paragraphs, echoes) against the
\* ALL_CHECKS name of its sub-check: a directive naming that sub-check drops
\* its findings in the named region, and no finding is dropped under a name
\* outside ALL_CHECKS.
C28_SubChecksFilteredUnderAllChecksName ==
    Returned /\ IsSome(Report.analyze) =>
        LET a == Unwrap(Report.analyze) IN
        /\ IsSome(a.grammar) =>
              /\ FilteredUnderOwnName(Unwrap(a.grammar).issues, ext.issues,
                                      SubCheckName.grammar, ext.sentence_map)
              /\ FilteredUnderOwnName(Unwrap(a.grammar).passive_voice, ext.passive_voice,
                                      SubCheckName.grammar, ext.sentence_map)
        /\ IsSome(a.sticky_sentences) =>
              FilteredUnderOwnName(Unwrap(a.sticky_sentences).sticky_sentences, ext.sticky,
                                   SubCheckName.sticky_sentences, ext.sentence_map)
        /\ IsSome(a.sentence_length) =>
              FilteredUnderOwnName(Unwrap(a.sentence_length).very_long, ext.very_long,
                                   SubCheckName.sentence_length, ext.sentence_map)
        /\ IsSome(a.complex_paragraphs) =>
              FilteredUnderOwnName(Unwrap(a.complex_paragraphs).complex_paragraphs,
                                   ext.complex, SubCheckName.complex_paragraphs,
                                   ext.paragraph_map)
        /\ IsSome(a.echoes) =>
              FilteredUnderOwnName(Unwrap(a.echoes).echoes, ext.echoes,
                                   SubCheckName.echoes, ext.paragraph_map)

---------------------------------------------------------------------------
\* Sentence splitting of texts with exclamation marks, question marks and
\* quotes.

\* A lowercase letter, an uppercase letter, a digit, a space, the two
\* terminators that are not periods, and the two quotes.
QuoteAlphabet == {"x", "Q", "1", " ", "!", "?", "\"", "'"}

InitQuote ==
    /\ IdleRules
    /\ IdleDir
    /\ IdleLint
    /\ IdleMap
    /\ \E n \in 0..MaxText : text \in [1..n -> QuoteAlphabet]
    /\ sentences = <<>>
    /\ current = <<>>
    /\ pos = 0
    /\ pcT = "start"

SpecQuote == InitQuote /\ [][NextText]_vars

\* The scan has just read the character text[pos], a '!' or '?' that is not
\* the last character of the text.
JustReadMark ==
    /\ pcT = "scan"
    /\ pos >= 1
    /\ pos < Len(text)
    /\ text[pos] \in {"!", "?"}

\* The mark just read is followed directly by a quote whose next character
\* is lowercase.
QuoteThenLowercase ==
    /\ text[pos + 1] \in {"\"", "'"}
    /\ pos + 2 <= Len(text)
    /\ IsLowercase(text[pos + 2])

\* C29: a '!' or '?' that is not the last character of the text ends the
\* current sentence, unless it is followed directly by a quote whose next
\* character is lowercase; after a quote followed by anything else, or by
\* the end of the text, the mark is a boundary.
C29_MarkEndsSentenceUnlessQuoteThenLowercase ==
    JustReadMark => (current = <<>> <=> ~QuoteThenLowercase)

---------------------------------------------------------------------------
\* The sentences as segments of the text.

\* The last position of C before p, 0 when there is none.
PrevCut(C, p) ==
    LET before == {c \in C : c < p} IN
    IF before = {} THEN 0 ELSE CHOOSE c \in before : \A d \in before : d <= c

\* C holds exactly the positions up to `upto` of the terminators judged a
\* boundary, each judged with the segment that the previous one started.
IsCutSet(C, upto) ==
    \A p \in 1..upto :
        p \in C <=>
            /\ is_sentence_terminator(text[p])
            /\ is_sentence_boundary(extract_context(text, p - 1),
                                    SubSeq(text, PrevCut(C, p) + 1, p))

\* The segments that the cuts C end, in the order of the text.
CutSegments(C) ==
    LET cs == Sorted(C) IN
    [k \in DOMAIN cs |-> SubSeq(text, PrevCut(C, cs[k]) + 1, cs[k])]

\* The text after the last cut of C, up to position `upto`.
TailSegment(C, upto) == SubSeq(text, PrevCut(C, upto + 1) + 1, upto)

TrimAll(segs) == [k \in DOMAIN segs |-> Trim(segs[k])]

\* The trimmed segments that pass the minimum-length guard.
KeptOf(segs) == SelectSeq(TrimAll(segs), LongEnough)

\* No segment holding text is discarded by the guard.
NoneDiscarded(segs) ==
    \A k \in DOMAIN segs : Trim(segs[k]) # <<>> => LongEnough(Trim(segs[k]))

RECURSIVE Flatten(_)
Flatten(seqs) == IF seqs = <<>> THEN <<>> ELSE Head(seqs) \o Flatten(Tail(seqs))

NotWhitespace(c) == ~IsWhitespace(c)
WithoutWhitespace(s) == SelectSeq(s, NotWhitespace)

\* C30: the sentences are, in order, the trimmed contents of consecutive
\* non-overlapping segments of the text, each ending at a terminator judged
\* a boundary or at the end of the text, less the segments the
\* minimum-length guard discards; during the scan the current sentence is
\* the text since the last boundary. When no segment is discarded, the
\* sentences joined without whitespace equal the text without whitespace.
C30_SentencesAreConsecutiveSegments ==
    /\ pcT = "scan" =>
          \E C \in SUBSET (1..pos) :
              /\ IsCutSet(C, pos)
              /\ sentences = KeptOf(CutSegments(C))
              /\ current = TailSegment(C, pos)
    /\ pcT = "done" =>
          \E C \in SUBSET (1..Len(text)) :
              LET segs == Append(CutSegments(C), TailSegment(C, Len(text))) IN
              /\ IsCutSet(C, Len(text))
              /\ sentences = KeptOf(segs)
              /\ NoneDiscarded(segs) =>
                    WithoutWhitespace(Flatten(sentences)) = WithoutWhitespace(text)

\* Two different sentences returned from a text without a discarded segment.
C30_Witness ==
    /\ pcT = "done"
    /\ Len(sentences) = 2
    /\ sentences[1] # sentences[2]
    /\ WithoutWhitespace(Flatten(sentences)) = WithoutWhitespace(text)

\* A returned sentence next to a discarded segment, whitespace being trimmed.
C30_WitnessDiscard ==
    /\ pcT = "done"
    /\ Len(sentences) = 1
    /\ \E p \in DOMAIN text : IsWhitespace(text[p])
    /\ WithoutWhitespace(Flatten(sentences)) # WithoutWhitespace(text)

====
